---------------------------- MODULE JobLifecycle ----------------------------
(***************************************************************************)
(* What the datarights service promises of a job, whatever its kind: it is *)
(* filed, it starts, its parts are carried out, and it ends exactly once:  *)
(* completed only when every part was carried out, or failed.              *)
(***************************************************************************)
EXTENDS Naturals, Sequences

CONSTANTS Kinds, Users, Ids,
          Parts(_)    \* the parts of the work of a kind

VARIABLES filed,      \* the jobs in the order they were filed
          carried     \* the parts of each job that were carried out

File(kind, user) ==
  filed' = Append(filed, [kind |-> kind, user |-> user, status |-> "pending"])

Start(i) ==
  /\ filed[i].status = "pending"
  /\ filed' = [filed EXCEPT ![i].status = "running"]

Work(i, part) ==
  /\ filed[i].status = "running"
  /\ part \in Parts(filed[i].kind)
  /\ carried' = [carried EXCEPT ![i] = @ \cup {part}]

Complete(i) ==
  /\ filed[i].status = "running"
  /\ carried[i] = Parts(filed[i].kind)
  /\ filed' = [filed EXCEPT ![i].status = "completed"]

Fail(i) ==
  /\ filed[i].status = "running"
  /\ filed' = [filed EXCEPT ![i].status = "failed"]

Init == filed = << >> /\ carried = [i \in Ids |-> {}]

Next ==
  \/ \E kind \in Kinds, user \in Users : File(kind, user) /\ UNCHANGED carried
  \/ \E i \in DOMAIN filed :
       \/ (Start(i) \/ Complete(i) \/ Fail(i)) /\ UNCHANGED carried
       \/ \E part \in Parts(filed[i].kind) : Work(i, part) /\ UNCHANGED filed

Spec == Init /\ [][Next]_<<filed, carried>>
=============================================================================
