-------------------------- MODULE SessionLifecycle --------------------------
(***************************************************************************)
(* What GetSerialization promises about the broker session, without the    *)
(* threads, the lock, the handles, the pipe and the messages: a session is *)
(* started by one launch, becomes live when its broker connects, and ends  *)
(* once, by one generation; while it is live LogonUI is only told to ask   *)
(* again, and the one answer that is final comes from a live session that  *)
(* said its last word.                                                     *)
(***************************************************************************)
EXTENDS Integers

VARIABLES
  state,       \* of the session
  launch,      \* the launch it comes from
  generation,  \* the generation a refresh is valid for
  answer       \* what LogonUI was told last

States  == {"none", "starting", "live", "failing", "finishing"}
Answers == {"none", "not_finished", "finished", "credential"}

vars == <<state, launch, generation, answer>>

Init == state = "none" /\ launch = 0 /\ generation = 1 /\ answer = "none"

Moves(from, to) == state = from /\ state' = to
Keeps           == UNCHANGED generation
Ends            == generation' = generation + 1
Says(kinds)     == answer' \in kinds
Silent          == UNCHANGED answer

Start       == Moves("none", "starting") /\ launch' = launch + 1 /\ Keeps /\ Silent
NoPipe      == Moves("none", "none") /\ Keeps /\ Says({"not_finished"})
NoBroker    == Moves("starting", "none") /\ Ends /\ Says({"not_finished"})
NoClient    == Moves("starting", "failing") /\ Ends /\ Silent
Connect     == Moves("starting", "live") /\ Keeps /\ Silent
AskAgain    == Moves("live", "live") /\ Keeps /\ Says({"not_finished"})
Lose        == Moves("live", "failing") /\ Ends /\ Silent
Refuse      == Moves("live", "none") /\ Ends /\ Says({"not_finished"})
LastWord    == Moves("live", "finishing") /\ Ends /\ Silent
GiveUp      == Moves("failing", "none") /\ Keeps /\ Says({"not_finished"})
Finish      == Moves("finishing", "none") /\ Keeps /\ Says(Answers \ {"none"})

\* A close from outside: of a live session, or of none; the generation of none
\* ends like any other.
Close       == state \in {"none", "live"} /\ state' = "none" /\ Ends /\ Silent

\* SetUsageScenario ends the generation again, whoever has the session then.
Outdate     == UNCHANGED state /\ Ends /\ Silent

\* LSA refused the credential.
Report      == UNCHANGED state /\ Keeps /\ answer = "credential" /\ Says({"none"})

Next ==
  \/ Start
  \/ /\ \/ NoPipe \/ NoBroker \/ NoClient \/ Connect \/ AskAgain \/ Lose
        \/ Refuse \/ LastWord \/ GiveUp \/ Finish \/ Close \/ Outdate \/ Report
     /\ UNCHANGED launch

Spec == Init /\ [][Next]_vars
=============================================================================
