---------------------------- MODULE FileMutations ----------------------------
(***************************************************************************)
(* Calls of apply_patch on one workspace.  A call reads the files of its   *)
(* patch to plan their new contents (the preview), waits for permission,   *)
(* and then saves the approved candidate: FileMutationService snapshots    *)
(* the files, writes the planned contents whatever the files hold by now,  *)
(* and puts the snapshots back if a write fails.  The Go peer does the same *)
(* to the workspaces it keeps.  Calls overlap: an agent without            *)
(* interactive approvals runs its calls in parallel, and agents share      *)
(* workspaces.                                                             *)
(*                                                                         *)
(* A file's content is the set of edits that it holds, an edit being a     *)
(* section of a call's patch; a file that was broken off while it was      *)
(* written holds none.  Section 0 of a call is what its user changed in    *)
(* the candidate while confirming it.                                      *)
(***************************************************************************)
EXTENDS Naturals, Sequences, FiniteSets

CONSTANTS
    File, Call,
    Patches,     \* patches that calls bring: sequences of sections
    FirstFiles,  \* sets of files that exist in the beginning
    MaxFaults    \* bound: reads and writes that fail

Section == [kind : {"add", "update", "delete", "move"}, path : File, to : File]

FileMutationsAssumption ==
    /\ Patches \subseteq Seq(Section) \ {<< >>} /\ MaxFaults \in Nat
    /\ IsFiniteSet(File) /\ \A p \in FirstFiles : p \subseteq File
    /\ "base" \notin Call

VARIABLES
    disk,     \* the files of the workspace
    patch,    \* per call: its patch
    phase,    \* per call: how far it is
    step,     \* per call: the section that it is at
    plan,     \* per call: new contents of the sections planned so far
    saved,    \* per call: files with a snapshot that was not put back yet
    snap,     \* per call: the snapshots
    before,   \* per call: the files when it began
    met,      \* calls whose files another call wrote after they began
    faults,   \* reads and writes that failed
    goesOn    \* the workspace is a peer's: a restoration passes over files that
              \* it cannot write

vars == <<disk, patch, phase, step, plan, saved, snap, before, met, faults, goesOn>>

Edits == (Call \X Nat) \cup {<<"base", 0>>}
Content == [present : BOOLEAN, edits : SUBSET Edits]
Present(edits) == [present |-> TRUE, edits |-> edits]
Absent == [present |-> FALSE, edits |-> {}]

Phases == {"idle", "planning", "asked", "snapshotting", "writing", "removing",
           "restoring", "restoring the rest", "completed", "failed",
           "half restored"}

TypeOK ==
    /\ disk \in [File -> Content] /\ snap \in [Call -> [File -> Content]]
    /\ before \in [Call -> [File -> Content]]
    /\ patch \in [Call -> Patches \cup {<< >>}] /\ phase \in [Call -> Phases]
    /\ step \in [Call -> Nat] /\ plan \in [Call -> Seq(Content)]
    /\ saved \in [Call -> SUBSET File] /\ met \subseteq Call
    /\ faults \in 0..MaxFaults /\ goesOn \in BOOLEAN

Init ==
    /\ \E p \in FirstFiles :
         disk = [f \in File |-> IF f \in p THEN Present({<<"base", 0>>}) ELSE Absent]
    /\ patch = [c \in Call |-> << >>] /\ phase = [c \in Call |-> "idle"]
    /\ step = [c \in Call |-> 1] /\ plan = [c \in Call |-> << >>]
    /\ saved = [c \in Call |-> {}] /\ snap = [c \in Call |-> disk]
    /\ before = [c \in Call |-> disk] /\ met = {} /\ faults = 0
    /\ goesOn \in BOOLEAN

-----------------------------------------------------------------------------
(* What a call touches.                                                    *)

\* A move writes its target and then removes the file it moved.
Target(s) == IF s.kind = "move" THEN s.to ELSE s.path
Named(s) == {s.path, Target(s)}

\* A wrong variant of Files: move targets are forgotten.
FilesWithoutTargets(c) == {patch[c][i].path : i \in DOMAIN patch[c]}

\* The files of a call's patch.  The code takes them in the order of its
\* sections; here it snapshots and restores them in any order.
Files(c) == UNION {Named(patch[c][i]) : i \in DOMAIN patch[c]}

\* Call c changes file f; the other calls that know f have met it.
Put(c, f, content) ==
    /\ disk' = [disk EXCEPT ![f] = content]
    /\ met' = met \cup {d \in Call \ {c} : phase[d] # "idle" /\ f \in Files(d)}

Enter(c, p) == phase' = [phase EXCEPT ![c] = p]

\* The next section of the patch, or what comes after the last one.
Advance(c, p, end) ==
    IF step[c] = Len(patch[c])
    THEN Enter(c, end) /\ step' = [step EXCEPT ![c] = 1]
    ELSE Enter(c, p) /\ step' = [step EXCEPT ![c] = @ + 1]

Fault == faults < MaxFaults /\ faults' = faults + 1

-----------------------------------------------------------------------------
(* The preview.                                                            *)

Start(c, p) ==
    /\ phase[c] = "idle" /\ Enter(c, "planning")
    /\ patch' = [patch EXCEPT ![c] = p] /\ before' = [before EXCEPT ![c] = disk]
    /\ UNCHANGED <<disk, step, plan, saved, snap, met, faults>>

\* What makes a section impossible on the files as they are.
Refused(s) ==
    \/ s.kind = "add" /\ disk[s.path].present
    \/ s.kind # "add" /\ ~disk[s.path].present
    \/ s.kind = "move" /\ s.to # s.path /\ disk[s.to].present

NewContent(c, i) ==
    LET s == patch[c][i]
    IN  CASE s.kind = "add" -> Present({<<c, i>>})
          [] s.kind = "delete" -> Absent
          [] OTHER -> Present(disk[s.path].edits \cup {<<c, i>>})

\* One section of the patch is planned against the file as it is on disk, not
\* as an earlier section of the patch will leave it.
PlanSection(c) ==
    /\ phase[c] = "planning" /\ ~Refused(patch[c][step[c]])
    /\ plan' = [plan EXCEPT ![c] = Append(@, NewContent(c, step[c]))]
    /\ Advance(c, "planning", "asked")
    /\ UNCHANGED <<disk, patch, saved, snap, before, met, faults>>

\* The section is refused, its hunks match nothing in the file or more than one
\* place, or the file cannot be read.
PreviewFails(c) ==
    /\ phase[c] = "planning" /\ Enter(c, "failed")
    /\ UNCHANGED <<disk, patch, step, plan, saved, snap, before, met, faults>>

\* The permission allows the call or its user does.  The answer may bring a
\* candidate of its own.
Allow(c, edited) ==
    LET Edited(content) == [content EXCEPT !.edits = @ \cup {<<c, 0>>}]
    IN  /\ phase[c] = "asked" /\ Enter(c, "snapshotting")
        /\ plan' = [plan EXCEPT ![c] = [i \in 1..Len(@) |->
                      IF edited /\ @[i].present THEN Edited(@[i]) ELSE @[i]]]
        /\ UNCHANGED <<disk, patch, step, saved, snap, before, met, faults>>

\* The permission or the user refuses it, or nobody answers in time.
Deny(c) ==
    /\ phase[c] = "asked" /\ Enter(c, "failed")
    /\ UNCHANGED <<disk, patch, step, plan, saved, snap, before, met, faults>>

-----------------------------------------------------------------------------
(* Saving the candidate.                                                   *)

Snapshot(c, f) ==
    /\ phase[c] = "snapshotting" /\ f \in Files(c) \ saved[c]
    /\ saved' = [saved EXCEPT ![c] = @ \cup {f}]
    /\ snap' = [snap EXCEPT ![c][f] = disk[f]]
    /\ Enter(c, IF saved'[c] = Files(c) THEN "writing" ELSE "snapshotting")
    /\ UNCHANGED <<disk, patch, step, plan, before, met, faults>>

\* Nothing has been written yet, and nothing is restored.
SnapshotFails(c) ==
    /\ phase[c] = "snapshotting" /\ Fault /\ Enter(c, "failed")
    /\ UNCHANGED <<disk, patch, step, plan, saved, snap, before, met>>

Write(c) ==
    LET s == patch[c][step[c]]
    IN  /\ phase[c] = "writing"
        /\ Put(c, Target(s), plan[c][step[c]])
        /\ IF s.path # Target(s) THEN Enter(c, "removing") /\ UNCHANGED step
                                 ELSE Advance(c, "writing", "completed")
        /\ UNCHANGED <<patch, plan, saved, snap, before, faults>>

\* The second half of a move.
Remove(c) ==
    /\ phase[c] = "removing"
    /\ Put(c, patch[c][step[c]].path, Absent)
    /\ Advance(c, "writing", "completed")
    /\ UNCHANGED <<patch, plan, saved, snap, before, faults>>

\* A write may break off with the file truncated; all snapshots are put back.
WriteFails(c, torn) ==
    /\ phase[c] \in {"writing", "removing"} /\ Fault /\ Enter(c, "restoring")
    /\ IF torn
       THEN /\ phase[c] = "writing" /\ plan[c][step[c]].present
            /\ Put(c, Target(patch[c][step[c]]), Present({}))
       ELSE UNCHANGED <<disk, met>>
    /\ UNCHANGED <<patch, step, plan, saved, snap, before>>

\* The snapshot of f was put back, or passed over.
AfterRestore(c, f, rest, end) ==
    /\ saved' = [saved EXCEPT ![c] = @ \ {f}]
    /\ Enter(c, IF saved[c] = {f} THEN end ELSE rest)

Restore(c, f) ==
    /\ phase[c] \in {"restoring", "restoring the rest"} /\ f \in saved[c]
    /\ Put(c, f, snap[c][f])
    /\ AfterRestore(c, f, phase[c],
                    IF phase[c] = "restoring" THEN "failed" ELSE "half restored")
    /\ UNCHANGED <<patch, step, plan, snap, before, faults>>

\* A file cannot be restored.  In Python nothing catches this, and the files
\* that are left stay as they are; the peer goes on with them.
RestoreFails(c, f, torn) ==
    /\ phase[c] \in {"restoring", "restoring the rest"} /\ f \in saved[c] /\ Fault
    /\ IF torn THEN snap[c][f].present /\ Put(c, f, Present({}))
               ELSE UNCHANGED <<disk, met>>
    /\ IF goesOn THEN AfterRestore(c, f, "restoring the rest", "half restored")
                 ELSE Enter(c, "half restored") /\ UNCHANGED saved
    /\ UNCHANGED <<patch, step, plan, snap, before>>

Saving(c) ==
    \/ SnapshotFails(c) \/ Write(c) \/ Remove(c)
    \/ \E f \in File : Snapshot(c, f) \/ Restore(c, f)
    \/ \E torn \in BOOLEAN : \/ WriteFails(c, torn)
                            \/ \E f \in File : RestoreFails(c, f, torn)

Next ==
    \E c \in Call :
        /\ \/ \E p \in Patches : Start(c, p)
           \/ PlanSection(c) \/ PreviewFails(c) \/ Deny(c)
           \/ \E edited \in BOOLEAN : Allow(c, edited)
           \/ Saving(c)
        /\ UNCHANGED goesOn

Spec == Init /\ [][Next]_vars

-----------------------------------------------------------------------------
(* Properties.                                                             *)

\* Nothing but its own edits and its user's is new in what c left.
HasEdit(c, f, i, old) ==
    disk[f].present /\ disk[f].edits \ {<<c, 0>>} = old \cup {<<c, i>>}

\* What section i of c's patch asks for has happened.
Done(c, i) ==
    LET s == patch[c][i]
    IN  CASE s.kind = "add" -> HasEdit(c, s.path, i, {})
          [] s.kind = "delete" -> ~disk[s.path].present
          [] s.kind = "update" -> HasEdit(c, s.path, i, before[c][s.path].edits)
          [] s.kind = "move" -> /\ HasEdit(c, s.to, i, before[c][s.path].edits)
                                /\ s.to # s.path => ~disk[s.path].present

\* No two sections of the patch name the same file.
Plain(p) ==
    \A i, j \in DOMAIN p : i # j => {p[i].path, p[i].to} \cap {p[j].path, p[j].to} = {}

Changed(c) == {f \in Files(c) : disk[f] # before[c][f]}

\* apply_patch is all or nothing: unless another call wrote to its files after
\* it began, a completed patch has made every change that its sections ask
\* for (where two sections name a file the last write stands), and a failed one
\* (in the preview, the answer, a snapshot or a write) has left every file as it
\* was.  Where a restoration goes on, only files that it could not write differ.
PatchIsWhole ==
    \A c \in Call \ met :
        /\ phase[c] = "completed" /\ Plain(patch[c]) =>
             \A i \in DOMAIN patch[c] : Done(c, i)
        /\ phase[c] = "failed" => Changed(c) = {}
        /\ goesOn /\ phase[c] = "half restored" => Cardinality(Changed(c)) < faults

-----------------------------------------------------------------------------
(* What a document, a comment or a test says and the code does not keep:   *)
(* README.md tells what happens instead.                                   *)

\* What a section updates is still what it was previewed on when it is saved.
StalePreviewFails ==
    \A c \in Call : phase[c] = "completed" /\ Plain(patch[c]) =>
        \A i \in DOMAIN patch[c] : patch[c][i].kind = "update" =>
            plan[c][i].edits \ {<<c, 0>>, <<c, i>>} = snap[c][patch[c][i].path].edits
=============================================================================
