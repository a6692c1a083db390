---------------------------- MODULE MatchPreview ----------------------------
(***************************************************************************)
(* The host's match preview: Match People and Re-match, which hold the     *)
(* generation lock and not the session guard, and Cancel and Exclude,      *)
(* which hold neither.  side.gen is the holder of the generation lock.     *)
(***************************************************************************)
EXTENDS EventState

\* The generation lock's holder goes to label, having replaced the slots S
\* of round r.
GenGoto(label) == side' = [side EXCEPT !.gen = label]
GenReplaces(label, r, S) ==
  /\ side' = [SideLosing(side, r, S) EXCEPT !.gen = label]
  /\ task' = TaskLosing(r, S)

\* replanRoundsAfterPreviewEdit, after the edit of round r that left the
\* rows rs: the planned rounds after r are generated anew.
ReplansAfter(rs, r) ==
  LET replanned(m) == task.arg > r /\ r < db.total /\ rs[task.arg][m] = "scheduled"
      lost(m) == rs[task.arg][m] = "none" \/ replanned(m) \/ rows'[task.arg][m] # rs[task.arg][m]
  IN /\ \E G \in SUBSET Rooms : rows' = Replanned(rs, r + 1, G)
     /\ task' = [task EXCEPT !.batch = {m \in @ : ~lost(m)}]

\* resolvePendingRound: the pending round, or the last scheduled one.
PendingRound(r) ==
  \/ mem.pending = r
  \/ /\ mem.pending = 0 /\ RowsIn(r, {"scheduled"}) # {}
     /\ \A q \in Rounds : q > r => RowsIn(q, {"scheduled"}) = {}

\* handleHostGenerateMatches: from the closing lobby it reopens the event,
\* cancelling its timer, without the guard.
HostGenerateMatches ==
  /\ "preview" \in Env
  /\ side.gen = "idle" /\ mem.live
  /\ \/ mem.status \in {"lobby_open", "round_transition"} /\ GenGoto("choose") /\ UNCHANGED mem
     \/ /\ "reopen" \in Env /\ mem.status = "closing_lobby"
        /\ mem' = [Cleared(mem) EXCEPT !.status = "round_transition"]
        /\ GenGoto("reopenRead")
  /\ UNCHANGED <<db, rows, saved, task, waiting, budget>>

\* The updateSessionStatus of the reopening.
ReopenRead ==
  /\ side.gen = "reopenRead"
  /\ GenGoto(IF db.status = "completed" THEN "choose" ELSE "reopenWrite")
  /\ UNCHANGED <<mem, db, rows, saved, task, waiting, budget>>
ReopenWrite ==
  /\ side.gen = "reopenWrite"
  /\ db' = [db EXCEPT !.status = "round_transition"]
  /\ GenGoto("choose")
  /\ UNCHANGED <<mem, rows, saved, task, waiting, budget>>

\* Too few eligible people, or the round to preview, read after the awaits.
ChooseRound ==
  /\ side.gen = "choose"
  /\ \/ GenGoto("idle")
     \/ /\ NextRound(mem) \in Rounds
        /\ side' = [side EXCEPT !.gen = "preview", !.genRound = NextRound(mem)]
  /\ UNCHANGED <<mem, db, rows, saved, task, waiting, budget>>

\* A plan that still fits is the preview.
SurfacePlan ==
  /\ side.gen = "preview"
  /\ RowsIn(side.genRound, {"scheduled"}) # {}
  /\ mem' = [mem EXCEPT !.pending = side.genRound]
  /\ GenGoto("replan")
  /\ UNCHANGED <<db, rows, saved, task, waiting, budget>>

\* Otherwise its scheduled rows are deleted and new ones generated; the
\* round is pending when it has any row at all.
DeletePlan ==
  /\ side.gen = "preview"
  /\ LET S == RowsIn(side.genRound, {"scheduled"}) IN
       /\ rows' = SetRows(rows, side.genRound, S, "none")
       /\ GenReplaces("generate", side.genRound, S)
  /\ UNCHANGED <<mem, db, saved, waiting, budget>>
GeneratePlan ==
  /\ side.gen = "generate"
  /\ \E G \in SUBSET FreeSlots(side.genRound) :
       LET found == G # {} \/ RowsIn(side.genRound, MatchStatus \ {"none"}) # {} IN
       /\ rows' = SetRows(rows, side.genRound, G, "scheduled")
       /\ mem' = IF found THEN [mem EXCEPT !.pending = side.genRound] ELSE mem
       /\ GenReplaces(IF found THEN "replan" ELSE "idle", side.genRound, G)
  /\ UNCHANGED <<db, saved, waiting, budget>>

Replan ==
  /\ side.gen = "replan"
  /\ ReplansAfter(rows, side.genRound)
  /\ GenGoto("idle")
  /\ UNCHANGED <<mem, db, saved, waiting, budget>>

\* handleHostRegenerateMatches refuses a round with an active or completed
\* row.
HostRegenerateMatches ==
  /\ "rematch" \in Env
  /\ side.gen = "idle" /\ mem.live
  /\ \E r \in Rounds :
       /\ PendingRound(r)
       /\ mem' = [mem EXCEPT !.pending = r]
       /\ side' = IF RowsIn(r, {"active", "completed"}) = {}
                  THEN [side EXCEPT !.gen = "rematch", !.genRound = r] ELSE side
  /\ UNCHANGED <<db, rows, saved, task, waiting, budget>>

\* Every row of the round is deleted, whatever its status by then.
RegenerateRound ==
  /\ side.gen = "rematch"
  /\ \E G \in SUBSET Rooms :
       rows' = [rows EXCEPT ![side.genRound] =
                  [m \in Rooms |-> IF m \in G THEN "scheduled" ELSE "none"]]
  /\ GenReplaces("replan", side.genRound, Rooms)
  /\ UNCHANGED <<mem, db, saved, waiting, budget>>

\* handleHostCancelPreview: no lock at all.
HostCancelPreview ==
  /\ "cancel" \in Env
  /\ mem.live /\ mem.pending # 0
  /\ mem' = [mem EXCEPT !.pending = 0]
  /\ rows' = SetRows(rows, mem.pending, RowsIn(mem.pending, {"scheduled"}), "cancelled")
  /\ UNCHANGED <<db, saved, task, waiting, side, budget>>

\* handleHostSwapMatch: no lock.  It moves people between two rows of the
\* round, or is refused.
HostSwapMatch ==
  /\ "rematch" \in Env /\ mem.live
  /\ \E r \in Rounds :
       /\ PendingRound(r)
       /\ mem' = [mem EXCEPT !.pending = r]
       /\ \/ UNCHANGED <<rows, task>>
          \/ /\ \E m, n \in RowsIn(r, MatchStatus \ {"none"}) : m # n
             /\ ReplansAfter(rows, r)
  /\ UNCHANGED <<db, saved, waiting, side, budget>>

\* handleHostExcludeFromRound of a member of a pair: no lock, and no look
\* at the status of the row it deletes.
HostExcludeFromRound ==
  /\ "exclude" \in Env
  /\ mem.live /\ mem.pending # 0
  /\ \E m \in RowsIn(mem.pending, MatchStatus \ {"none"}) :
       /\ ReplansAfter(SetRows(rows, mem.pending, {m}, "none"), mem.pending)
       /\ side' = SideLosing(side, mem.pending, {m})
  /\ UNCHANGED <<mem, db, saved, waiting, budget>>
=============================================================================
