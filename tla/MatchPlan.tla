------------------------------ MODULE MatchPlan ------------------------------
(***************************************************************************)
(* Who meets whom: the plan made when the event starts, the preview Match  *)
(* Participants shows of it or generates, Re-match, the host's edits and   *)
(* the replanning after each (matching-flow.ts), and the rounds played.    *)
(* Match Participants, Re-match and repairs are single steps, since the    *)
(* generation lock keeps them apart (SessionLocks); an edit takes no lock: *)
(* it reads, checks, writes row by row, then replans round by round.       *)
(***************************************************************************)
EXTENDS MatchingEngine

CONSTANTS Settings,  \* records [policy, hard, recent, old]: see Setting
          StartSets,    \* who may be there when the event starts
          PlannedTotal,   \* the rounds of the plan; one more can be played
          Editors,   \* host edits under way at once
          MaxEdits,  \* bound on the edits, all begun before any move
          MaxArrivals   \* bound on the arrivals and departures

Rounds == 1..(PlannedTotal + 1)
\* Of a pair: blocked, reported or inviter and invitee (hard), met in an
\* earlier event within the cooldown (recent) or before (old).
Setting == [policy : {"none", "within_event", "cooldown", "platform_wide"},
            hard : SUBSET Pairs, recent : SUBSET Pairs, old : SUBSET Pairs]
ASSUME PlanAssumption ==
  Settings \subseteq Setting /\ StartSets \subseteq SUBSET Participants /\ PlannedTotal \in Nat \ {0}

VARIABLES setting,  \* of the event
          present,  \* the people in the main room, eligible
          round,    \* the round to come
          plan,     \* the rooms of every round: planned, or played before round
          shown,    \* the preview of round: what made it, for whom, with whom met, for what
          edit,     \* per editor: the row writes still to do
          replan,   \* per editor: the round its replanning comes to, with what
          torn,     \* the rounds that hold rows of two generations at once
          spent    \* edits and moves made
planVars == <<setting, present, round, plan, shown, edit, replan, torn, spent>>

\* mixed: the arrangement a Re-match replaced was torn.
Unshown == [by |-> "none", people |-> {}, met |-> {}, before |-> {}, mixed |-> FALSE]
NoEdit == [round |-> 0, todo |-> <<>>]
NoReplan == [at |-> "idle", next |-> 0, people |-> {}, rooms |-> {}, seen |-> {}]
Gone == [pair |-> {}, third |-> {}]

-----------------------------------------------------------------------------
(* What the engine is asked *)

\* getEncounterHistoryForUsers: empty unless the policy looks across events.
History == IF setting.policy \in {"cooldown", "platform_wide"}
           THEN setting.recent \cup setting.old ELSE {}

\* excludedPairs: the pairs of the rounds played, and of earlier events as
\* the policy says.
Played == UNION {PairKeys(plan[q]) : q \in 1..(round - 1)}
Excluded ==
  (IF setting.policy = "none" THEN {} ELSE Played)
    \cup CASE setting.policy = "platform_wide" -> History
           [] setting.policy = "cooldown" -> setting.recent
           [] OTHER -> {}
InputOf(people) ==
  [people |-> people, used |-> Excluded, hard |-> setting.hard, met |-> History]
\* generateSingleRound (a bound variable per argument: each is evaluated once).
GeneratedFor(people, keep) ==
  UNION {ServiceRounds(in, k) : in \in {InputOf(people)}, k \in {keep}}
Generated(keep) == GeneratedFor(present, keep)
\* The engine is given no hard exclusions for the plan.
PlanInput == [people |-> present, used |-> {}, hard |-> {}, met |-> History]

\* repairFutureRounds: every planned round from r on, generated anew.
Repaired(r) == {q \in Rounds : q >= r /\ q <= PlannedTotal}
RepairedFrom(p, r) ==
  {[q \in Rounds |-> IF q \in Repaired(r) THEN new[q] ELSE p[q]] :
     new \in [Repaired(r) -> Generated({})]}

\* The deleted rows of the rounds R are found by no UPDATE any more.
Forgetting(e, R, kept) ==
  LET find(x) == IF x.row \in kept THEN x ELSE [x EXCEPT !.row = Gone]
  IN [h \in Editors |-> IF e[h].round \notin R THEN e[h]
                        ELSE [e[h] EXCEPT !.todo = [i \in DOMAIN @ |-> find(@[i])]]]

\* The rounds R are generated anew: what a replanning under way has seen of
\* them is deleted, and what it inserts comes on top of the new rows.
Renews(R) ==
  /\ edit' = Forgetting(edit, R, {})
  /\ replan' = [h \in Editors |-> IF replan[h].next \in R THEN [replan[h] EXCEPT !.seen = {}]
                                  ELSE replan[h]]
  /\ torn' = torn \ R
\* A DELETE waits for rows another transaction has deleted and not committed.
Free(R) == \A h \in Editors : replan[h].next \in R => replan[h].seen = {}
\* Under the lock: the rounds X are in p, those from r on are generated anew.
Remakes(p, X, r) ==
  /\ Free(Repaired(r))
  /\ plan' \in RepairedFrom(p, r)
  /\ Renews(X \cup Repaired(r))

\* A preview that is edited or generated anew is no longer what was asked for.
Otherwise(by) == [Unshown EXCEPT !.by = by]
Redone(R) == IF round \in R /\ shown.by # "none" THEN Otherwise("replan") ELSE shown
Showing(by, before, mixed) ==
  [by |-> by, people |-> present, met |-> Played, before |-> before, mixed |-> mixed]

-----------------------------------------------------------------------------
(* Actions *)

\* handleHostStart: generateSchedule refuses fewer than two people.
PlanInit ==
  /\ setting \in Settings
  /\ present \in StartSets
  /\ round = 1
  /\ \/ /\ Cardinality(present) >= 2
        /\ \E S \in Schedules(PlannedTotal, PlanInput) :
             plan = [r \in Rounds |-> IF r <= PlannedTotal THEN S[r] ELSE {}]
     \/ Cardinality(present) < 2 /\ plan = [r \in Rounds |-> {}]
  /\ shown = Unshown
  /\ edit = [h \in Editors |-> NoEdit]
  /\ replan = [h \in Editors |-> NoReplan] /\ torn = {}
  /\ spent = [edits |-> 0, moves |-> 0]

\* canSurfacePrePlan: the plan is for the people of now, it repeats no pair
\* played, and the policy is not the one the plan does not know.
SurfacesRepeating ==
  /\ plan[round] # {}
  /\ Placed(plan[round]) = present
  /\ setting.policy # "platform_wide"
Surfaces ==
  /\ plan[round] # {}
  /\ Placed(plan[round]) = present
  /\ PairKeys(plan[round]) \cap Played = {}
  /\ setting.policy # "platform_wide"

\* handleHostGenerateMatches: the plan as it is or a round generated now;
\* then the later rounds are replanned.  Nothing to show ends it early.
MatchPeople ==
  /\ round \in Rounds
  /\ Cardinality(present) >= 2
  /\ \/ /\ Surfaces
        /\ Remakes(plan, {}, round + 1)
        /\ shown' = Showing("match", {}, FALSE)
     \/ /\ ~Surfaces
        /\ \E R \in Generated({}) :
             IF R = {}
             THEN /\ plan' = [plan EXCEPT ![round] = {}]
                  /\ Renews({round})
                  /\ shown' = IF shown.by = "none" THEN shown ELSE Otherwise("failed")
             ELSE /\ Remakes([plan EXCEPT ![round] = R], {round}, round + 1)
                  /\ shown' = Showing("match", {}, FALSE)
  /\ UNCHANGED <<setting, present, round, spent>>

\* handleHostRegenerateMatches: the current pairs are excluded at every level;
\* if that makes fewer rooms, a round is generated without it.
Rotated ==
  LET rotated == Generated(PairKeys(plan[round]))
      same(R) == {Members(m) : m \in R} = {Members(m) : m \in plan[round]}
      stuck(R) == plan[round] # {} /\ (same(R) \/ Cardinality(R) < Cardinality(plan[round]))
  IN {R \in rotated : ~stuck(R)}
       \cup IF \E R \in rotated : stuck(R) THEN Generated({}) ELSE {}
Rematch ==
  /\ shown.by # "none"
  /\ \E R \in Rotated : Remakes([plan EXCEPT ![round] = R], {round}, round + 1)
  /\ shown' = Showing("rematch", plan[round], round \in torn)
  /\ UNCHANGED <<setting, present, round, spent>>

\* A room with somebody else in somebody's place.
InPlace(room, old, new) ==
  LET put(S) == IF old \in S THEN (S \ {old}) \cup {new} ELSE S
  IN [pair |-> put(room.pair), third |-> put(room.third)]

\* Of a trio two people stay, whoever leaves; a pair is deleted.
Without(room, p) ==
  IF room.third = {} THEN Gone ELSE PairRoom(Members(room) \ {p})

\* validateMatchAssignment: nobody of the room is in a row outside those
\* under edit, and nobody is in it twice.
Valid(room, r, under) ==
  /\ Cardinality(room.pair) = 2 /\ room.third \cap room.pair = {}
  /\ \A other \in plan[r] \ under : Members(room) \cap Members(other) = {}

\* An edit reads the rows, computes the new ones and has them checked.  An
\* editor is one call, to the end of its replanning.
Begin(h, todo) ==
  /\ shown.by # "none"
  /\ edit[h] = NoEdit /\ replan[h] = NoReplan
  /\ spent.edits < MaxEdits /\ spent.moves = 0
  /\ edit' = [edit EXCEPT ![h] = [round |-> round, todo |-> todo]]
  /\ spent' = [spent EXCEPT !.edits = @ + 1]
  /\ UNCHANGED <<setting, present, round, plan, shown, replan, torn>>
SwapWritesFirst(m, n, a, b) == <<[row |-> m, new |-> InPlace(m, a, b)]>>
SwapWrites(m, n, a, b) ==
  <<[row |-> m, new |-> InPlace(m, a, b)], [row |-> n, new |-> InPlace(n, b, a)]>>
HostSwapMatch(h) ==
  round \in Rounds /\ \E m, n \in plan[round] : \E a \in Members(m), b \in Members(n) :
    /\ m # n
    /\ \A room \in {InPlace(m, a, b), InPlace(n, b, a)} : Valid(room, round, {m, n})
    /\ Begin(h, SwapWrites(m, n, a, b))
HostExcludeFromRound(h) ==
  round \in Rounds /\ \E m \in plan[round] : \E a \in Members(m) :
    /\ m.third # {} => Valid(Without(m, a), round, {m})
    /\ Begin(h, <<[row |-> m, new |-> Without(m, a)]>>)

\* The next row is written by its id, if it still exists; other edits under
\* way refer to the same row.
WriteRow(h) ==
  LET r == edit[h].round
      write == Head(edit[h].todo)
      written == IF write.row \in plan[r]
                 THEN [plan EXCEPT ![r] = (@ \ {write.row}) \cup ({write.new} \ {Gone})] ELSE plan
      follow(x) == IF x.row = write.row THEN [x EXCEPT !.row = write.new] ELSE x
      others == [g \in Editors |->
                   IF g = h THEN [edit[h] EXCEPT !.todo = Tail(@)]
                   ELSE IF edit[g].round = r
                        THEN [edit[g] EXCEPT !.todo = [i \in DOMAIN @ |-> follow(@[i])]]
                        ELSE edit[g]]
  IN /\ edit[h].todo # <<>>
     /\ \A g \in Editors : replan[g].next = r => write.row \notin replan[g].seen
     /\ plan' = written /\ edit' = others
     /\ shown' = IF r = round THEN Otherwise("edit") ELSE shown
     /\ UNCHANGED <<setting, present, round, replan, torn, spent>>

\* replanRoundsAfterPreviewEdit, under no lock: it reads who is there,
\* wipes the rounds after the edited one, then generates and writes each.
Replan(h) ==
  LET r == edit[h].round
  IN /\ r # 0 /\ edit[h].todo = <<>>
     /\ edit' = [edit EXCEPT ![h] = NoEdit]
     /\ replan' = IF r >= PlannedTotal THEN replan
                  ELSE [replan EXCEPT ![h] = [NoReplan EXCEPT !.at = "wipe", !.next = r + 1,
                                                              !.people = present]]
     /\ UNCHANGED <<setting, present, round, plan, shown, torn, spent>>
ReplanWipes(h) ==
  LET R == Repaired(replan[h].next)
  IN /\ replan[h].at = "wipe" /\ Free(R)
     /\ plan' = [q \in Rounds |-> IF q \in R THEN {} ELSE plan[q]]
     /\ edit' = Forgetting(edit, R, {})
     /\ replan' = [replan EXCEPT ![h].at = "round"]
     /\ torn' = torn \ R
     /\ shown' = Redone(R)
     /\ UNCHANGED <<setting, present, round, spent>>
\* The presence gate falls open where nobody of those read is left.
Still(people) == IF people \cap present = {} THEN present ELSE people \cap present
\* A round is generated, and the transaction of persistMatches deletes the
\* rows it finds; what others insert after that stays beside its own rows.
ReplanRound(h) ==
  LET q == replan[h].next
      taken == UNION {replan[g].seen : g \in {k \in Editors : replan[k].next = q}}
  IN /\ replan[h].at = "round"
     /\ \E R \in GeneratedFor(Still(replan[h].people), {}) :
          replan' = [replan EXCEPT ![h].at = "commit", ![h].rooms = R, ![h].seen = plan[q] \ taken]
     /\ UNCHANGED <<setting, present, round, plan, shown, edit, torn, spent>>
\* The unique index refuses a pair that is there already, and with it the
\* whole transaction; the next round follows either way.
ReplanCommits(h) ==
  LET q == replan[h].next
      rooms == replan[h].rooms
      kept == plan[q] \ replan[h].seen
      clash == \E m \in rooms : m.third = {} /\ m \in kept
  IN /\ replan[h].at = "commit"
     /\ replan' = [replan EXCEPT ![h] =
                     IF q = PlannedTotal THEN NoReplan
                     ELSE [@ EXCEPT !.at = "round", !.next = q + 1, !.rooms = {}, !.seen = {}]]
     /\ IF clash THEN UNCHANGED <<plan, shown, edit, torn>>
        ELSE /\ plan' = [plan EXCEPT ![q] = kept \cup rooms]
             /\ edit' = Forgetting(edit, {q}, kept)
             /\ torn' = IF kept = {} THEN torn \ {q} ELSE torn \cup {q}
             /\ shown' = Redone({q})
     /\ UNCHANGED <<setting, present, round, spent>>

\* The round is confirmed and played to its end.  Bound: an edit may outlast
\* the start of its round, but not that of the next; nor is a round started
\* under its replanning.
PlayRound ==
  /\ shown.by # "none" /\ plan[round] # {}
  /\ \A h \in Editors : edit[h].round \in {0, round} /\ replan[h].next \notin 1..round
  /\ round' = round + 1
  /\ shown' = Unshown
  /\ UNCHANGED <<setting, present, plan, edit, replan, torn, spent>>

\* Somebody arrives in the main room or leaves it.
Move ==
  /\ spent.moves < MaxArrivals
  /\ \E p \in Participants : present' = IF p \in present THEN present \ {p} ELSE present \cup {p}
  /\ spent' = [spent EXCEPT !.moves = @ + 1]
  /\ UNCHANGED <<setting, round, plan, shown, edit, replan, torn>>

\* runRepair: after a join or a leave the rounds to come are made anew, the
\* one shown among them (SessionLocks says when).
RepairRounds ==
  /\ spent.moves > 0
  /\ Remakes(plan, {}, round)
  /\ shown' = Redone(Repaired(round))
  /\ UNCHANGED <<setting, present, round, spent>>

PlanNext ==
  \/ MatchPeople \/ Rematch \/ PlayRound \/ Move \/ RepairRounds
  \/ \E h \in Editors : HostSwapMatch(h) \/ HostExcludeFromRound(h) \/ WriteRow(h)
                       \/ Replan(h) \/ ReplanWipes(h) \/ ReplanRound(h) \/ ReplanCommits(h)
PlanSpec == PlanInit /\ [][PlanNext]_planVars

-----------------------------------------------------------------------------
(* Properties *)

\* Nobody is in two rooms of a round, whatever the edits and generations
\* between which an edit's writes fall ("the validator catches drift caused
\* by other handlers writing in parallel", matching-flow.ts).  Only a round
\* into which an unlocked replanning and another generation both inserted
\* is not spoken of (NobodyEverInTwoRooms), until it is made anew.
NobodyInTwoRooms ==
  \A r \in Rounds :
    \/ \E h \in Editors : edit[h].round = r
    \/ r \in torn
    \/ Apart(plan[r])

\* Match Participants repeats a played pair only where it must: of an even number
\* everybody is placed, with as few repeats as any arrangement has that
\* keeps the hard pairs apart ("shows fresh pairs whenever fresh pairs
\* exist", matching.service.ts).
Possible(S, keys) == Cardinality(S) % 2 = 0 /\ Cardinality(S) <= Exact /\ Avoiding(S, keys) # {}
FewestRepeats ==
  shown.by = "match" /\ setting.policy = "within_event" /\ Possible(shown.people, setting.hard) =>
    /\ Placed(plan[round]) = shown.people
    /\ \A M \in Avoiding(shown.people, setting.hard) :
         Repeats(plan[round], shown.met) <= Cardinality(M \cap shown.met)

\* Re-match brings back no pair of the arrangement it replaces while the
\* same people can be arranged otherwise ("Re-match must ALWAYS rotate to a
\* DIFFERENT arrangement", matching-flow.ts), unless what it replaces was
\* torn: a torn round has more rooms than any arrangement, and Re-match
\* falls back wherever it would make fewer.
RematchRotates ==
  shown.by = "rematch" /\ ~shown.mixed =>
    LET kept == setting.hard \cup PairKeys(shown.before) IN
      Possible(shown.people, kept) =>
        /\ Placed(plan[round]) = shown.people
        /\ PairKeys(plan[round]) \cap PairKeys(shown.before) = {}

\* A pair the live engine makes is never one that must be kept apart, at no
\* level of the ladder and after no exchange.
RematchRespectsBlocks ==
  shown.by = "rematch" => \A m \in plan[round] : m.pair \notin setting.hard

-----------------------------------------------------------------------------
(* What comments say and the code does not keep; one run checks the first *)

\* What the comments say of any preview (matching.service.ts, "so the
\* matching engine never pairs them").
BlockedNeverShareARoom ==
  shown.by \in {"match", "rematch"} => PairKeys(plan[round]) \cap setting.hard = {}

\* What the comments say of the plan (matching.service.ts, repairFutureRounds:
\* "don't repeat completed rounds OR already-regenerated future rounds").
PlannedRoundsDiffer ==
  \A q, r \in round..PlannedTotal : q # r /\ setting.policy = "within_event" =>
    PairKeys(plan[q]) \cap PairKeys(plan[r]) = {}

\* What the comment on runRepair's lock is there for, that no generation
\* races another (participant-flow.ts): the replanning after an edit takes no
\* lock, and a repair can run between its writes.
NobodyEverInTwoRooms ==
  \A r \in Rounds : (\E h \in Editors : edit[h].round = r) \/ Apart(plan[r])
=============================================================================
