----------------------------- MODULE MCDetector -----------------------------
(* One workload with two pods.  Its lines: an info line, two distinct      *)
(* errors, a third that merges with the first, and a blank line.           *)
EXTENDS Detector

CONSTANTS w1, p1, p2, d1

Msg(severity, tokens) == [sev |-> severity, words |-> tokens]
MCMessage == { Msg(Info, <<"ok">>), Msg(Error, <<"a", "b">>),
               Msg(Error, <<"a", "7">>), Msg(Fatal, <<"b">>),
               Msg(Unknown, <<>>) }
\* One line comes without pod or digest.
MCLine ==
  [workload : Workload, pod : Pod, digest : Digest, msg : Message] \cup
  {[workload |-> w1, pod |-> None, digest |-> None,
    msg |-> Msg(Error, <<"a", "b">>)]}
=============================================================================
