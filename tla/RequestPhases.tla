---------------------------- MODULE RequestPhases ----------------------------
(***************************************************************************)
(* How far the parser of one connection has come, as the event loop sees   *)
(* it.  Request::parse is called once per EPOLLIN with what recv returned; *)
(* what the call may make of the request depends only on the phase it was  *)
(* in and on whether recv returned anything.  Module Request is the parser *)
(* in detail and is checked to move between phases only as listed here.    *)
(*                                                                         *)
(*   "head"      start line or headers incomplete                          *)
(*   "body"      headers parsed, Content-Length within the limit, body     *)
(*               incomplete                                                *)
(*   "over"      headers parsed, Content-Length above the limit, 413 not   *)
(*               yet set: the test that sets it runs at the next call      *)
(*   "complete"  isParsed(): every part parsed, or an error code set       *)
(*   "thrown"    parse threw; the request is not used again                *)
(***************************************************************************)
Unfinished == {"head", "body", "over"}

Phases == Unfinished \cup {"complete"}

(* What a call that was handed bytes may leave behind. *)
AfterBytes == [head |-> {"head", "body", "over", "complete", "thrown"},
               body |-> {"body", "complete"},
               over |-> {"complete"}]

(* What a call with an empty string (recv returned 0 or -1) may leave.  Only
   the over-limit test runs again; the rest needs bytes to move. *)
AfterNothing == [head |-> {"head"},
                 body |-> {"body"},
                 over |-> {"complete"}]
==============================================================================
