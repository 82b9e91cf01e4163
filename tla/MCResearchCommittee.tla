------------------------- MODULE MCResearchCommittee -------------------------
(* Small instances of the research committee for TLC. *)
EXTENDS ResearchCommittee, TLC

OneSubject  == "t1" :> "s1"
OneDay      == "t1" :> 1
OnePriority == "t1" :> 80
OneCost     == "t1" :> 1

O(stance, conf, elig, peers) ==
  [stance |-> stance, conf |-> conf, elig |-> elig, peers |-> peers]

\* A confident supporter, a confident but not vetoing opponent, an abstention,
\* and an adjudicator siding with support on a peer's evidence: the two experts can
\* agree, dispute until adjudicated, or abstain.
DebateOpinions ==
  {O("support", 7, TRUE, {}), O("oppose", 6, TRUE, {}), O("abstain", 10, TRUE, {}),
   O("support", 7, TRUE, {"risk_redteam"})}

\* Without escalation: support with and without an approval, a veto, an abstention.
PlainOpinions ==
  {O("support", 7, TRUE, {}), O("support", 7, FALSE, {}), O("oppose", 7, TRUE, {}),
   O("abstain", 10, TRUE, {})}

\* Only the sides of a dispute and its adjudication.
DisputeOpinions == {o \in DebateOpinions : o.stance # "abstain"}

\* Findings of a dispute among hosts that keep their leases: bound to a pack of
\* the round it was read in, peers cited in the adjudicator's round only.
HeldContents ==
  {x \in [opinion : DisputeOpinions, pack : Packs, read : Packs] :
     /\ x.pack.round = x.read.round
     /\ x.opinion.peers # {} => x.pack.round = MaxRounds}

PlainContents  == [opinion : PlainOpinions, pack : Packs, read : Packs]
DisputeContents == [opinion : DisputeOpinions, pack : Packs, read : Packs]
DebateContents == [opinion : DebateOpinions, pack : Packs, read : Packs]

\* Hosts of one kind are interchangeable.
SameHosts == Permutations(Workers)

(* Fairness: hosts keep stepping and asking for work, with every lapsed lease
   counted as late; synthesis calls that began run to their end. *)
FairHosts ==
  /\ \A w \in Workers : /\ WF_vars(HostStep(w))
                        /\ WF_vars(Asks(w, MayLapse))
  /\ \A t \in Tasks : WF_vars(Known(t) /\ SynthStep(t))

FairSpec == Spec /\ FairHosts

\* Every task is eventually closed or deserted: crashes cost attempts, and
\* attempts are bounded; what its last host leaves ready waits for an operator.
ClosedOrDeserted ==
  \A t \in Tasks :
    task[t].status \in Active ~> task[t].status \in Terminal \/ Deserted(t)

\* Without a sweep, which no schedule runs, nobody picks up a board whose last
\* host died before it synthesised.
TaskEventuallyResolved ==
  \A t \in Tasks : task[t].status \in Active ~> task[t].status \in Terminal
=============================================================================
