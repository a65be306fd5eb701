--------------------------- MODULE InventoryCache ---------------------------
(***************************************************************************)
(* One entry of backend/authoritative-inventory-cache.cts: a value that is *)
(* loaded from files which other programs change, kept in memory and in a  *)
(* snapshot file, and given again only while a fingerprint of the files is *)
(* what it was around the load.  It is used as its callers use it: without *)
(* watchers and background refreshes, always for the same files.           *)
(*                                                                         *)
(* Neither a fingerprint nor a load is atomic: each reads one file after   *)
(* the other.  A file has an identity and a length; of the files in loose, *)
(* the append-tolerant ones, a load may see any length.  A value is what   *)
(* the load read.  Contents behind the hashed prefix of a long file are    *)
(* part of neither fingerprint nor value.                                  *)
(***************************************************************************)
EXTENDS Integers, Sequences

CONSTANTS NumFiles, Options, \* the files, and what the entry's requests may say of them
          MaxAttempts,       \* maxReconcileAttempts
          MaxChanges, MaxInvalidations, MaxRestarts   \* bounds

File == 1 .. NumFiles
Nothing == << >>
Unknown == [before |-> Nothing, pins |-> Nothing, loaded |-> Nothing, after |-> Nothing, at |-> 0]
Unanswered == [view |-> Nothing, at |-> 0]

VARIABLES options,     \* of the entry: loose files, and changing: sourceMayChangeDuringLoad
          log,         \* what the files were, one state after the other (history)
          value, print,    \* of the entry: what was loaded, and its fingerprint
          generation,  \* of the entry: how often it was invalidated
          snapshot,    \* the entry in the snapshot file
          pc,          \* what the pending computation does
          scan,        \* what it has read of the files in this phase
          known,       \* what it read in its earlier phases, and the generation at its load
          attempt, since,  \* the attempt, and the generation it began with
          answer,      \* what it answered, and the generation when that was loaded
          loadedAt,    \* the generation when the value was loaded (history)
          began, asked,    \* length of the log and generation at its begin (history)
          restarts

entry == <<value, print, generation, snapshot, loadedAt>>
work == <<pc, scan, known, attempt, since, answer>>
call == <<began, asked>>
vars == <<options, log, entry, work, call, restarts>>

Now == log[Len(log)]

Init ==
  /\ options \in Options /\ log = <<[f \in File |-> [ident |-> 0, size |-> 0]]>>
  /\ value = Nothing /\ print = Nothing /\ generation = 0 /\ loadedAt = 0
  /\ snapshot = [value |-> Nothing, print |-> Nothing]
  /\ pc = "idle" /\ scan = Nothing /\ known = Unknown /\ attempt = 0 /\ since = 0
  /\ answer = Unanswered /\ began = 1 /\ asked = 0 /\ restarts = 0

-----------------------------------------------------------------------------
(* Other programs rewrite files, and append to some.                       *)
Change(f) ==
  /\ Len(log) <= MaxChanges
  /\ \/ log' = Append(log, [Now EXCEPT ![f].ident = @ + 1])
     \/ f \in options.loose /\ log' = Append(log, [Now EXCEPT ![f].size = @ + 1])
  /\ UNCHANGED <<options, entry, work, call, restarts>>

(* markDirty                                                               *)
Invalidate ==
  /\ generation < MaxInvalidations
  /\ generation' = generation + 1 /\ print' = Nothing
  /\ UNCHANGED <<options, log, value, snapshot, loadedAt, work, call, restarts>>

-----------------------------------------------------------------------------
(* The fingerprint of what must not change while the files are loaded.     *)
Pins(view) == [f \in File |-> IF f \in options.loose THEN [view[f] EXCEPT !.size = 0] ELSE view[f]]
Pinned == ~options.changing /\ options.loose # {}

Goes(phase) == pc' = phase /\ scan' = Nothing
Answers(view, at) == Goes("idle") /\ answer' = [view |-> view, at |-> at]

(* Fingerprints visit the files in order.                                  *)
Read(f) ==
  /\ pc \in {"check", "before", "pins", "load", "after", "repins"}
  /\ f \notin DOMAIN scan /\ (pc = "load" \/ 1 .. f - 1 \subseteq DOMAIN scan)
  /\ scan' = [g \in DOMAIN scan \cup {f} |-> IF g = f THEN Now[f] ELSE scan[g]]
  /\ UNCHANGED <<options, log, entry, pc, known, attempt, since, answer, call, restarts>>
Done(phase) == pc = phase /\ DOMAIN scan = File

(* A request begins a computation; those that come meanwhile share it.     *)
Get ==
  /\ pc = "idle" /\ Goes("check") /\ known' = Unknown
  /\ began' = Len(log) /\ asked' = generation /\ since' = generation
  /\ attempt' = 1 /\ answer' = Unanswered
  /\ UNCHANGED <<options, log, entry, restarts>>

Begins(before) ==
  /\ Goes(IF Pinned THEN "pins" ELSE "load")
  /\ known' = [Unknown EXCEPT !.before = before, !.at = generation]

Serves == value # Nothing /\ print = scan /\ generation = since

(* resolveCurrent.  Its fingerprint serves the first attempt to reconcile, *)
(* unless the entry was invalidated meanwhile.                             *)
Check ==
  /\ Done("check")
  /\ \/ Serves /\ Answers(value, loadedAt) /\ UNCHANGED <<known, since>>
     \/ /\ ~Serves /\ since' = generation /\ UNCHANGED answer
        /\ CASE options.changing -> Begins(Nothing)
             [] ~options.changing /\ generation = since -> Begins(scan)
             [] OTHER -> Goes("before") /\ UNCHANGED known
  /\ UNCHANGED <<options, log, entry, attempt, call, restarts>>

(* reconcile: a fingerprint before, the load, a fingerprint after.         *)
Reconcile ==
  /\ \/ Done("before") /\ Begins(scan)
     \/ Done("pins") /\ Goes("load") /\ known' = [known EXCEPT !.pins = Pins(scan), !.at = generation]
     \/ Done("load") /\ Goes("after") /\ known' = [known EXCEPT !.loaded = scan]
     \/ Done("after") /\ Pinned /\ Goes("repins") /\ known' = [known EXCEPT !.after = scan]
  /\ UNCHANGED <<options, log, entry, attempt, since, answer, call, restarts>>

(* Variant: an invalidation during the load goes unnoticed.                *)
StableFiles(after) == IF Pinned THEN Pins(scan) = known.pins ELSE after = known.before

Stable(after) ==
  since = generation /\ IF Pinned THEN Pins(scan) = known.pins ELSE after = known.before

(* What is stable becomes the value; only what did not change at all       *)
(* serves again, and is written to the snapshot file.                      *)
Conclude ==
  LET after == IF Pinned THEN known.after ELSE scan IN
  /\ Done(IF Pinned THEN "repins" ELSE "after")
  /\ \/ /\ options.changing \/ Stable(after)
        /\ value' = known.loaded /\ loadedAt' = known.at
        /\ print' = IF known.before = after THEN after ELSE Nothing
        /\ IF print' = Nothing THEN Answers(known.loaded, known.at) /\ UNCHANGED known
           ELSE /\ Goes("store") /\ known' = [known EXCEPT !.after = after]
                /\ UNCHANGED answer
        /\ UNCHANGED <<attempt, since>>
     \/ /\ ~options.changing /\ ~Stable(after) /\ attempt < MaxAttempts
        /\ attempt' = attempt + 1 /\ since' = generation /\ Goes("before")
        /\ known' = Unknown /\ UNCHANGED <<value, loadedAt, print, answer>>
     \/ /\ ~options.changing /\ ~Stable(after) /\ attempt = MaxAttempts
        /\ Goes("idle") /\ UNCHANGED <<value, loadedAt, print, answer, attempt, since, known>>
  /\ UNCHANGED <<options, log, generation, snapshot, call, restarts>>

Store ==
  /\ pc = "store"
  /\ snapshot' = [value |-> known.loaded, print |-> known.after]
  /\ Answers(known.loaded, known.at)
  /\ UNCHANGED <<options, log, value, print, generation, loadedAt, known, attempt, since, call, restarts>>

(* A file cannot be read, a load fails, the snapshot cannot be written.    *)
Fail ==
  /\ pc # "idle" /\ Goes("idle")
  /\ UNCHANGED <<options, log, entry, known, attempt, since, answer, call, restarts>>

(* The server starts again and finds the snapshot.                         *)
Restart ==
  /\ restarts < MaxRestarts /\ restarts' = restarts + 1
  /\ value' = snapshot.value /\ print' = snapshot.print
  /\ generation' = 0 /\ loadedAt' = 0
  /\ pc' = "idle" /\ scan' = Nothing /\ known' = Unknown /\ attempt' = 0 /\ since' = 0
  /\ answer' = Unanswered /\ began' = Len(log) /\ asked' = 0
  /\ UNCHANGED <<options, log, snapshot>>

Next == \/ \E f \in File : Change(f) \/ Read(f)
        \/ Invalidate \/ Get \/ Check \/ Reconcile \/ Conclude \/ Store \/ Fail \/ Restart
Spec == Init /\ [][Next]_vars

-----------------------------------------------------------------------------
(* An answer is no older than the request that caused it: each file is as  *)
(* it was at a moment since then; what must not change during a load, at   *)
(* one moment for all files; and the load began after every invalidation   *)
(* that came before the request.                                           *)
Since == {log[n] : n \in began .. Len(log)}
AnswersAreCurrent ==
  answer # Unanswered =>
    /\ \A f \in File : \E s \in Since : s[f] = answer.view[f]
    /\ ~options.changing => \E s \in Since : Pins(s) = Pins(answer.view)
    /\ answer.at >= asked
=============================================================================
