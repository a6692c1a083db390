--------------------------- MODULE MatchingEngine ---------------------------
(***************************************************************************)
(* The pairing of one round (matching.engine.ts) and the ladder, the swaps *)
(* and the plan matching.service.ts puts around it.  A score is real-      *)
(* valued and depends on profiles: only the tier it breaks ties in is kept *)
(* (whether the two have met), so each operator is the set of the rounds   *)
(* the code may return.  The people come in the order of a query without   *)
(* ORDER BY: any order.                                                    *)
(***************************************************************************)
EXTENDS Integers, FiniteSets, Sequences, FiniteSetsExt

CONSTANTS Participants,   \* numbers, in the order of their ids
          Exact     \* up to how many people the search is exact (30)
ASSUME EngineAssumption == Participants \subseteq Nat /\ IsFiniteSet(Participants) /\ Exact \in Nat

Pairs == kSubset(2, Participants)

\* A row of matches: participants A and B, and C of a trio.
Room == [pair : Pairs, third : {{}} \cup {{p} : p \in Participants}]
PairRoom(p) == [pair |-> p, third |-> {}]
Members(room) == room.pair \cup room.third
Placed(rooms) == UNION {Members(room) : room \in rooms}
Apart(rooms) == \A m, n \in rooms : m # n => Members(m) \cap Members(n) = {}

\* arrangementPairKeys: every two people of a room, a trio's three edges.
PairKeys(rooms) == UNION {kSubset(2, Members(room)) : room \in rooms}

\* What a call of the engine is given: the people, the pairs already used,
\* the hard exclusions, and the pairs met in earlier events.
Candidates(in) == {p \in Pairs : p \subseteq in.people} \ (in.used \cup in.hard)

\* Fresh first: a pair that has met before comes after any that has not.
Freshest(S, met) == IF S \subseteq met THEN S ELSE S \ met

\* Pairs that share nobody.
IsMatching(M) == \A p, q \in M : p # q => p \cap q = {}

\* findCompleteMatching: whoever comes first takes the freshest partner that
\* leaves the others a complete matching.  Empty when there is none.  Who
\* comes first matters only where there is a freshest partner to take.
FirstOf(free, met) == IF met = {} THEN {Min(free)} ELSE free
With(found, free, p) == {M \cup {p} : M \in found[free \ p]}
Partners(found, free, cand, first) ==
  {p \in cand : first \in p /\ p \subseteq free /\ With(found, free, p) # {}}
Search(found, free, cand, met) ==
  IF free = {} THEN {{}}
  ELSE UNION {UNION {With(found, free, p) : p \in Freshest(Partners(found, free, cand, first), met)} :
                first \in FirstOf(free, met)}
CompleteMatchings(cand, met) ==
  LET found[free \in SUBSET Participants] == Search(found, free, cand, met) IN found

\* Otherwise the candidates are taken greedily, in the order of the sort.
Rest(open, p) == {q \in open : q \cap p = {}}
Taking(taken, open, p) == {M \cup {p} : M \in taken[Rest(open, p)]}
Take(taken, open, met) ==
  IF open = {} THEN {{}} ELSE UNION {Taking(taken, open, p) : p \in Freshest(open, met)}
GreedyMatchings(met) ==
  LET taken[open \in SUBSET Pairs] == Take(taken, open, met) IN taken

Matchings(in) ==
  LET cand == Candidates(in)
      complete == IF Cardinality(in.people) % 2 = 0 /\ Cardinality(in.people) \in 2..Exact
                  THEN CompleteMatchings(cand, in.met)[in.people] ELSE {}
  IN IF complete # {} THEN complete ELSE GreedyMatchings(in.met)[cand]

\* One person left over joins the pair of the best score, whatever the
\* exclusions say; more than one left over sit the round out.
WithLeftover(M, left) ==
  IF Cardinality(left) = 1 /\ M # {}
  THEN {{PairRoom(p) : p \in M \ {q}} \cup {[pair |-> q, third |-> left]} : q \in M}
  ELSE {{PairRoom(p) : p \in M}}
EngineRounds(in) ==
  UNION {WithLeftover(M, in.people \ UNION M) : M \in Matchings(in)}

\* Whatever the engine may be asked of these people, with no exclusions.
Arrangements(people) ==
  UNION {WithLeftover(M, people \ UNION M) :
           M \in {N \in SUBSET {p \in Pairs : p \subseteq people} : IsMatching(N)}}

\* generateSchedule: n rounds, each without the pairs of the earlier ones;
\* of a trio it keeps A and B only.
PairsBefore(S, n) == UNION {{r.pair : r \in S[q]} : q \in 1..(n - 1)}
Schedules(n, in) ==
  {S \in [1..n -> Arrangements(in.people)] :
     \A r \in 1..n : S[r] \in EngineRounds([in EXCEPT !.used = @ \cup PairsBefore(S, r)])}

-----------------------------------------------------------------------------
(* generateSingleRound of the service: the fallback ladder *)

KeyBefore(p, q) == Min(p) < Min(q) \/ (Min(p) = Min(q) /\ Max(p) < Max(q))
UpperHalf(keys) ==
  {k \in keys : Cardinality({l \in keys : KeyBefore(l, k)}) >= Cardinality(keys) \div 2}
\* Levels 1 and 2 change the weights of the scores only: they can land on
\* nothing level 0 could not, and hold no repeat to reduce.
RelaxedAt(level, used) ==
  IF level = 0 THEN used ELSE IF level = 3 THEN UpperHalf(used) ELSE {}

\* Complete but for the one an odd number leaves over.
IsComplete(rooms, in) ==
  Cardinality(Placed(rooms)) >= 2 * (Cardinality(in.people) \div 2)

\* keep: the pairs a Re-match may not bring back, at no level.
Tried(level, in, keep) == EngineRounds([in EXCEPT !.used = RelaxedAt(level, in.used) \cup keep])

\* The next level is tried where a round is not complete; the last settles.
Landed(in, keep) ==
  LET first == Tried(0, in, keep)
      next  == Tried(3, in, keep)
      Whole(rounds) == {R \in rounds : IsComplete(R, in)}
  IN [level : {0}, rooms : Whole(first)]
       \cup IF Whole(first) = first THEN {}
            ELSE [level : {3}, rooms : Whole(next)]
                   \cup IF Whole(next) = next THEN {}
                        ELSE [level : {4}, rooms : Tried(4, in, keep)]

\* reduceRepeatPairs: two pairs exchange partners while that makes fewer of
\* them repeats, and never into a pair of never.
Repeats(rooms, used) == Cardinality({r \in rooms : r.pair \in used})
Across(m, n) == UNION {{{a, c} : c \in n.pair} : a \in m.pair}
Exchanged(rooms, m, n, p) ==
  (rooms \ {m, n}) \cup {PairRoom(p), PairRoom((m.pair \cup n.pair) \ p)}
Exchanges(rooms, used, never) ==
  LET two == {r \in rooms : r.third = {}}
  IN {R \in UNION {UNION {{Exchanged(rooms, m, n, p) : p \in Across(m, n)} : n \in two \ {m}} : m \in two} :
        /\ Repeats(R, used) < Repeats(rooms, used)
        /\ \A r \in R \ rooms : r.pair \notin never}
Reduce(reduced, rooms, used, never) ==
  LET better == Exchanges(rooms, used, never)
  IN IF better = {} THEN {rooms} ELSE UNION {reduced[R] : R \in better}
ReduceRepeats(used, never) ==
  LET reduced[rooms \in {R \in SUBSET Room : Apart(R)}] == Reduce(reduced, rooms, used, never)
  IN reduced

\* What may never be created by an exchange: the hard pairs, and on Re-match
\* those it must rotate away from.
NeverPairHardOnly(in, keep) == in.hard
NeverPairKeptOnly(in, keep) == keep
NeverPair(in, keep) == in.hard \cup keep
ServiceRounds(in, keep) ==
  UNION {IF l.level = 0 THEN {l.rooms} ELSE ReduceRepeats(in.used, NeverPair(in, keep))[l.rooms] :
           l \in Landed(in, keep)}

-----------------------------------------------------------------------------
(* The reference: what a round could be, whatever way it is looked for *)

PerfectMatchings(S) ==
  {M \in SUBSET {p \in Pairs : p \subseteq S} : IsMatching(M) /\ UNION M = S}
Avoiding(S, keys) == {M \in PerfectMatchings(S) : M \cap keys = {}}
=============================================================================
