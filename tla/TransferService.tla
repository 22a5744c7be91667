--------------------------- MODULE TransferService ---------------------------
(***************************************************************************)
(* What a connection promises in push mode, without threads, queues or     *)
(* adapters: the caller queues commands; the data of Sends arrives in the  *)
(* server's memory in the order it was queued; and a Complete becomes      *)
(* visible on the server once, in order, after every earlier Complete and  *)
(* after the data of every earlier Send.                                   *)
(* A connection may stop at any point: nothing here has to happen.         *)
(***************************************************************************)
EXTENDS Commands

VARIABLES
  accepted,   (* the commands the channel took, in order                    *)
  written,    (* the Sends (by position) whose data the server has          *)
  recorded    (* the Completes (by position) in the order it learnt of them *)

svars == <<accepted, written, recorded>>

Before(k) == 1 .. k - 1

Init ==
  /\ accepted = << >>
  /\ written = {}
  /\ recorded = << >>

Accept(cmd) ==
  /\ accepted' = Append(accepted, cmd)
  /\ UNCHANGED <<written, recorded>>

Write(k) ==
  /\ IsGoodSend(accepted[k]) /\ k \notin written
  /\ \A j \in Before(k) : IsGoodSend(accepted[j]) => j \in written
  /\ written' = written \cup {k}
  /\ UNCHANGED <<accepted, recorded>>

Announced == {recorded[i] : i \in 1 .. Len(recorded)}

Announce(k) ==
  /\ IsComplete(accepted[k]) /\ k \notin Announced
  /\ \A j \in Before(k) : /\ IsComplete(accepted[j]) => j \in Announced
                          /\ IsGoodSend(accepted[j]) => j \in written
  /\ recorded' = Append(recorded, k)
  /\ UNCHANGED <<accepted, written>>

Next ==
  \/ \E cmd \in Command : Accept(cmd)
  \/ \E k \in 1 .. Len(accepted) : Write(k) \/ Announce(k)

Spec == Init /\ [][Next]_svars
=============================================================================
