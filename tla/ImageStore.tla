------------------------------ MODULE ImageStore ------------------------------
(***************************************************************************)
(* What the image store promises to those who keep its answers for a       *)
(* month: an image appears at once in every size, as one kind of file, and *)
(* never changes or goes away.                                             *)
(***************************************************************************)
CONSTANTS Ids, None

VARIABLE answers   \* answers[i]: the different answers, over all sizes, to
                   \* requests for image i

(* A file of this kind, sent as what it is; or nothing.                    *)
Sent(kind) == [format |-> kind, data |-> kind]

Init == answers = [i \in Ids |-> {Sent(None)}]

Add(i) ==
  /\ answers[i] = {Sent(None)}
  /\ \E kind \in {"png", "svg"} : answers' = [answers EXCEPT ![i] = {Sent(kind)}]

Next == \E i \in Ids : Add(i)

Spec == Init /\ [][Next]_answers
=============================================================================
