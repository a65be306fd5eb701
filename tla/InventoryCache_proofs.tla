----------------------- MODULE InventoryCache_proofs -----------------------
(***************************************************************************)
(* What the cache of inventories answers is no older than the request, for *)
(* any number of files, attempts, changes, invalidations and restarts, and *)
(* although neither a fingerprint nor a load is atomic.                    *)
(*                                                                         *)
(* The argument is that files only move on.  A load lies between two       *)
(* fingerprints; when these are the same, the files stood still from one   *)
(* to the other, and the load saw them as they were when it began.  A      *)
(* value that is served again has the fingerprint of a scan that followed  *)
(* the request, and is older than the request, so the files stood still    *)
(* from its load to the request.                                           *)
(***************************************************************************)
EXTENDS InventoryCache, TLAPS

CacheConstants ==
  /\ NumFiles \in Nat
  /\ Options \subseteq [loose : SUBSET File, changing : BOOLEAN]

Stat == [ident : Nat, size : Nat]
Views == [File -> Stat]
Partial == UNION {[D -> Stat] : D \in SUBSET File}

(* No older, for one file.                                                 *)
Le(a, b) == a.ident <= b.ident /\ a.size <= b.size
NoNewer(v, w) == \A f \in File : Le(v[f], w[f])

TypeOK ==
  /\ options \in Options
  /\ log \in Seq(Views) /\ Len(log) > 0
  /\ generation \in Nat /\ loadedAt \in Nat /\ since \in Nat /\ asked \in Nat
  /\ began \in 1 .. Len(log) /\ asked <= since /\ since <= generation
  /\ scan \in Partial
  /\ known \in [before : Partial, pins : Partial, loaded : Partial, after : Partial, at : Nat]

(* Files only move on.                                                     *)
Monotone == \A m, n \in 1 .. Len(log) : m <= n => NoNewer(log[m], log[n])

(* Each of some files as it was at a moment since m.                       *)
SeenIn(states, view, D, m) == \A f \in D : \E n \in m .. Len(states) : view[f] = states[n][f]
Seen(view, D, m) == SeenIn(log, view, D, m)

(* What serves again, from memory or after a restart, is what the files    *)
(* were when it was loaded, and was not invalidated.                       *)
Fits(val, fingerprint) ==
  /\ val # Nothing => val \in Views
  /\ fingerprint # Nothing =>
       val = fingerprint /\ val \in Views /\ NoNewer(val, Now) /\ ~options.changing
Keeps ==
  /\ Fits(value, print) /\ (print # Nothing => loadedAt = generation)
  /\ Fits(snapshot.value, snapshot.print)
  /\ pc = "check" /\ print # Nothing => NoNewer(value, log[began])

(* A moment that lies between the first fingerprint and the load.          *)
Base(m) ==
  /\ m \in began .. Len(log)
  /\ options.changing => known.before = Nothing
  /\ ~options.changing => known.before \in Views /\ NoNewer(known.before, log[m])
  /\ Pinned => known.pins \in Views /\ NoNewer(known.pins, Pins(log[m]))

(* What may be answered.                                                   *)
Current(view, at) ==
  /\ Seen(view, File, began)
  /\ ~options.changing => \E s \in Since : Pins(s) = Pins(view)
  /\ at >= asked

(* What the pending computation knows in its phases.                       *)
Computes ==
  /\ pc \in {"check", "before", "pins"} => Seen(scan, DOMAIN scan, began)
  /\ pc = "before" => ~options.changing
  /\ pc = "pins" => known.before \in Views /\ Seen(known.before, File, began) /\ Pinned
  /\ pc = "load" => \E m \in Nat : Base(m) /\ Seen(scan, DOMAIN scan, m)
  /\ pc \in {"after", "repins"} =>
       /\ \E m \in Nat : Base(m) /\ Seen(known.loaded, File, m)
       /\ known.loaded \in Views
       /\ \A f \in DOMAIN scan : Le(known.loaded[f], scan[f])
  /\ pc = "repins" => known.after \in Views /\ NoNewer(known.loaded, known.after) /\ Pinned
  /\ pc = "store" =>
       /\ known.loaded = known.after /\ known.loaded \in Views /\ ~options.changing
       /\ Current(known.loaded, known.at)
  /\ pc \in {"pins", "load", "after", "repins"} => since <= known.at /\ known.at <= generation

Answered == answer # Unanswered => Current(answer.view, answer.at)

Inv == TypeOK /\ Monotone /\ Keeps /\ Computes /\ Answered
-----------------------------------------------------------------------------
LEMMA NothingIsPartial == Nothing \in Partial /\ DOMAIN Nothing = {}
<1>1. DOMAIN Nothing = {} /\ Nothing \in [{} -> Stat]
  BY DEF Nothing
<1> QED
  BY <1>1 DEF Partial

LEMMA UnknownType ==
  Unknown \in [before : Partial, pins : Partial, loaded : Partial, after : Partial, at : Nat]
BY NothingIsPartial DEF Unknown

LEMMA PartialFunction ==
  ASSUME NEW v \in Partial
  PROVE  /\ DOMAIN v \subseteq File /\ v \in [DOMAIN v -> Stat]
         /\ DOMAIN v = File => v \in Views
BY DEF Partial, Views

(* The order of the states of a file.                                      *)
LEMMA LeOrder ==
  /\ \A a \in Stat : Le(a, a)
  /\ \A a, b \in Stat : Le(a, b) /\ Le(b, a) => a = b
  /\ \A a, b, c \in Stat : Le(a, b) /\ Le(b, c) => Le(a, c)
BY DEF Le, Stat

LEMMA ViewOrder ==
  /\ \A u \in Views : NoNewer(u, u)
  /\ \A u, v \in Views : NoNewer(u, v) /\ NoNewer(v, u) => u = v
  /\ \A u, v, w \in Views : NoNewer(u, v) /\ NoNewer(v, w) => NoNewer(u, w)
<1>1. \A u \in Views : \A f \in File : u[f] \in Stat
  BY DEF Views
<1>2. ASSUME NEW u \in Views, NEW v \in Views, NoNewer(u, v), NoNewer(v, u) PROVE u = v
  <2>1. \A f \in File : u[f] = v[f]
    BY <1>1, <1>2, LeOrder DEF NoNewer
  <2> QED
    BY <2>1 DEF Views
<1> QED
  BY <1>1, <1>2, LeOrder DEF NoNewer

LEMMA PinsOrder ==
  ASSUME NEW u \in Views, NEW v \in Views
  PROVE  /\ Pins(u) \in Views
         /\ NoNewer(u, v) => NoNewer(Pins(u), Pins(v))
         /\ options.loose = {} => Pins(u) = u
<1>1. \A f \in File : u[f] \in Stat /\ v[f] \in Stat
  BY DEF Views
<1>2. \A a \in Stat : [a EXCEPT !.size = 0] \in Stat
                      /\ [a EXCEPT !.size = 0].ident = a.ident /\ [a EXCEPT !.size = 0].size = 0
  BY DEF Stat
<1>3. Pins(u) \in Views
  BY <1>1, <1>2 DEF Pins, Views
<1>4. NoNewer(u, v) => NoNewer(Pins(u), Pins(v))
  BY <1>1, <1>2 DEF Pins, NoNewer, Le
<1>5. options.loose = {} => Pins(u) = u
  BY <1>1 DEF Pins, Views
<1> QED
  BY <1>3, <1>4, <1>5

LEMMA LogViews ==
  ASSUME TypeOK
  PROVE  /\ Len(log) \in Nat /\ Len(log) \in 1 .. Len(log) /\ DOMAIN log = 1 .. Len(log)
         /\ \A n \in 1 .. Len(log) : log[n] \in Views
         /\ Now \in Views
BY DEF TypeOK, Now

(* What was seen since a moment is between that moment and now.            *)
LEMMA SeenOrder ==
  ASSUME TypeOK, Monotone, NEW D \in SUBSET File, NEW m \in 1 .. Len(log), NEW view, Seen(view, D, m)
  PROVE  \A f \in D : view[f] \in Stat /\ Le(log[m][f], view[f]) /\ Le(view[f], Now[f])
<1> SUFFICES ASSUME NEW f \in D
             PROVE  view[f] \in Stat /\ Le(log[m][f], view[f]) /\ Le(view[f], Now[f])
  OBVIOUS
<1>1. PICK n \in m .. Len(log) : view[f] = log[n][f]
  BY DEF Seen, SeenIn
<1>2. n \in 1 .. Len(log) /\ m <= n /\ n <= Len(log) /\ f \in File
  BY <1>1, LogViews
<1>3. NoNewer(log[m], log[n]) /\ NoNewer(log[n], log[Len(log)])
  BY <1>2, LogViews DEF Monotone
<1>4. log[n][f] \in Stat
  BY <1>2, LogViews DEF Views
<1> QED
  BY <1>1, <1>2, <1>3, <1>4 DEF NoNewer, Now

LEMMA SeenLonger ==
  ASSUME NEW m \in Nat, NEW k \in Nat, k <= m, NEW D, NEW view, Seen(view, D, m)
  PROVE  Seen(view, D, k)
<1> SUFFICES ASSUME NEW f \in D PROVE \E n \in k .. Len(log) : view[f] = log[n][f]
  BY DEF Seen, SeenIn
<1>1. PICK n \in m .. Len(log) : view[f] = log[n][f]
  BY DEF Seen, SeenIn
<1> QED
  BY <1>1
-----------------------------------------------------------------------------
(* Two fingerprints that agree, and a load between them: the load saw the  *)
(* files as they were at one moment.                                       *)
LEMMA LoadIsCurrent ==
  ASSUME TypeOK, Monotone, NEW m \in Nat, Base(m), Seen(known.loaded, File, m),
         known.loaded \in Views, known.at >= asked,
         options.changing \/ \E v \in Views :
            /\ NoNewer(known.loaded, v)
            /\ IF Pinned THEN Pins(v) = known.pins ELSE v = known.before
  PROVE  Current(known.loaded, known.at)
<1>1. began \in 1 .. Len(log) /\ m \in 1 .. Len(log) /\ began <= m /\ m \in began .. Len(log)
      /\ began \in Nat
  BY LogViews DEF TypeOK, Base
<1>2. Seen(known.loaded, File, began)
  BY <1>1, SeenLonger
<1>3. log[m] \in Views /\ NoNewer(log[m], known.loaded)
  BY <1>1, SeenOrder, LogViews DEF NoNewer
<1>4. ASSUME ~options.changing PROVE Pins(log[m]) = Pins(known.loaded)
  <2>1. PICK v \in Views : /\ NoNewer(known.loaded, v)
                           /\ IF Pinned THEN Pins(v) = known.pins ELSE v = known.before
    BY <1>4
  <2>2. /\ Pins(log[m]) \in Views /\ Pins(known.loaded) \in Views /\ Pins(v) \in Views
        /\ NoNewer(Pins(log[m]), Pins(known.loaded)) /\ NoNewer(Pins(known.loaded), Pins(v))
    BY <1>3, <2>1, PinsOrder
  <2>3. NoNewer(Pins(v), Pins(log[m]))
    <3>1. CASE Pinned
      BY <2>1, <3>1 DEF Base
    <3>2. CASE ~Pinned
      <4>1. NoNewer(v, log[m])
        BY <1>4, <2>1, <3>2 DEF Base
      <4> QED
        BY <1>3, <2>1, <4>1, PinsOrder
    <3> QED
      BY <3>1, <3>2
  <2> QED
    BY <2>2, <2>3, ViewOrder
<1>5. ~options.changing => \E s \in Since : Pins(s) = Pins(known.loaded)
  BY <1>1, <1>4 DEF Since
<1> QED
  BY <1>2, <1>5 DEF Current

(* A value that serves a request was true when the request came.           *)
LEMMA ServedIsCurrent ==
  ASSUME TypeOK, Monotone, Keeps, pc = "check", Seen(scan, DOMAIN scan, began),
         DOMAIN scan = File, Serves
  PROVE  Current(value, loadedAt)
<1>1. print # Nothing
  <2>1. ASSUME print = Nothing PROVE FALSE
    <3>1. File = {} /\ value # Nothing
      BY <2>1, NothingIsPartial DEF Serves
    <3>2. value \in Views
      BY <3>1 DEF Keeps, Fits
    <3> QED
      BY <3>1, <3>2 DEF Views, Nothing
  <2> QED
    BY <2>1
<1>2. CASE print # Nothing
  <2>1. /\ value = scan /\ value \in Views /\ NoNewer(value, log[began])
        /\ loadedAt = generation
    BY <1>2 DEF Serves, Keeps, Fits
  <2>2. began \in 1 .. Len(log) /\ log[began] \in Views /\ began \in began .. Len(log)
    BY LogViews DEF TypeOK
  <2>3. NoNewer(log[began], value)
    BY <2>1, <2>2, SeenOrder DEF NoNewer
  <2>4. value = log[began]
    BY <2>1, <2>2, <2>3, ViewOrder
  <2>5. \E s \in Since : Pins(s) = Pins(value)
    BY <2>2, <2>4 DEF Since
  <2> QED
    BY <2>1, <2>5 DEF Current, TypeOK
<1> QED
  BY <1>1, <1>2
-----------------------------------------------------------------------------
LEMMA InvInit == ASSUME CacheConstants PROVE Init => Inv
<1> SUFFICES ASSUME Init PROVE Inv
  OBVIOUS
<1>1. /\ Len(log) = 1 /\ log \in Seq(Views) /\ options \in Options
  <2>1. [f \in File |-> [ident |-> 0, size |-> 0]] \in Views
    BY DEF Views, Stat
  <2> QED
    BY <2>1 DEF Init
<1>2. TypeOK
  BY <1>1, NothingIsPartial, UnknownType DEF Init, TypeOK
<1>3. Monotone
  BY <1>1, <1>2, LogViews, ViewOrder DEF Monotone
<1>4. Keeps
  BY DEF Init, Keeps, Fits
<1>5. Computes /\ Answered
  BY DEF Init, Computes, Answered
<1> QED
  BY <1>2, <1>3, <1>4, <1>5 DEF Inv

(* What has been said about the past stays true while the log grows.       *)
Grows ==
  /\ log' \in Seq(Views) /\ Len(log') \in Nat /\ Len(log) <= Len(log')
  /\ \A n \in 1 .. Len(log) : log'[n] = log[n]

LEMMA ChangeGrows ==
  ASSUME TypeOK, Monotone, NEW f \in File, Change(f)
  PROVE  Grows /\ Monotone' /\ NoNewer(Now, Now') /\ Now' \in Views
<1> DEFINE idents == [Now EXCEPT ![f].ident = @ + 1]
           sizes == [Now EXCEPT ![f].size = @ + 1]
<1>1. Now \in Views /\ \A g \in File : Now[g] \in Stat
  BY LogViews DEF Views
<1>2. /\ [Now[f] EXCEPT !.ident = @ + 1] \in Stat /\ Le(Now[f], [Now[f] EXCEPT !.ident = @ + 1])
      /\ [Now[f] EXCEPT !.size = @ + 1] \in Stat /\ Le(Now[f], [Now[f] EXCEPT !.size = @ + 1])
  BY <1>1 DEF Stat, Le
<1>3. /\ idents = [Now EXCEPT ![f] = [Now[f] EXCEPT !.ident = @ + 1]]
      /\ sizes = [Now EXCEPT ![f] = [Now[f] EXCEPT !.size = @ + 1]]
  BY <1>1
<1>4. idents \in Views /\ sizes \in Views /\ NoNewer(Now, idents) /\ NoNewer(Now, sizes)
  BY <1>1, <1>2, <1>3, LeOrder DEF Views, NoNewer
<1>5. PICK v \in {idents, sizes} : log' = Append(log, v)
  BY DEF Change
<1>6. v \in Views /\ NoNewer(Now, v)
  BY <1>4, <1>5
<1>7. /\ log' \in Seq(Views) /\ Len(log') = Len(log) + 1 /\ log'[Len(log) + 1] = v
      /\ \A n \in 1 .. Len(log) : log'[n] = log[n]
  BY <1>5, <1>6, LogViews DEF TypeOK
<1>8. Now' = v
  BY <1>7 DEF Now
<1>9. Monotone'
  <2> SUFFICES ASSUME NEW m \in 1 .. Len(log'), NEW n \in 1 .. Len(log'), m <= n
               PROVE  NoNewer(log'[m], log'[n])
    BY DEF Monotone, NoNewer
  <2>1. CASE n \in 1 .. Len(log)
    BY <1>7, <2>1, LogViews DEF Monotone
  <2>2. CASE m \in 1 .. Len(log) /\ n = Len(log) + 1
    <3>1. NoNewer(log[m], Now)
      BY <2>2, LogViews DEF Monotone, Now
    <3> QED
      BY <1>1, <1>6, <1>7, <2>2, <3>1, LogViews, ViewOrder
  <2>3. CASE m = Len(log) + 1 /\ n = Len(log) + 1
    BY <1>6, <1>7, <2>3, ViewOrder
  <2> QED
    BY <1>7, <2>1, <2>2, <2>3, LogViews
<1> QED
  BY <1>6, <1>7, <1>8, <1>9, LogViews DEF Grows

LEMMA SeenGrows ==
  ASSUME TypeOK, Grows, NEW D, NEW m \in Nat \ {0}, NEW view, Seen(view, D, m)
  PROVE  SeenIn(log', view, D, m)
<1> SUFFICES ASSUME NEW f \in D PROVE \E n \in m .. Len(log') : view[f] = log'[n][f]
  BY DEF Seen, SeenIn
<1>1. PICK n \in m .. Len(log) : view[f] = log[n][f]
  BY DEF Seen, SeenIn
<1> QED
  BY <1>1, LogViews DEF Grows

LEMMA CurrentGrows ==
  ASSUME TypeOK, Grows, UNCHANGED <<options, began, asked>>, NEW view, NEW at, Current(view, at)
  PROVE  Current(view, at)'
<1>1. began \in Nat \ {0}
  BY LogViews DEF TypeOK
<1>2. SeenIn(log', view, File, began)
  BY <1>1, SeenGrows DEF Current
<1>3. \A n \in began .. Len(log) : n \in began' .. Len(log') /\ log'[n] = log[n]
  BY <1>1, LogViews DEF Grows
<1>4. ~options.changing => \E x \in Since' : Pins(x)' = Pins(view)'
  <2> SUFFICES ASSUME ~options.changing PROVE \E x \in Since' : Pins(x)' = Pins(view)'
    OBVIOUS
  <2>1. PICK n \in began .. Len(log) : Pins(log[n]) = Pins(view)
    BY DEF Current, Since
  <2>2. log[n] \in Since'
    BY <1>3, <2>1 DEF Since
  <2>3. Pins(log[n])' = Pins(view)'
    BY <1>3, <2>1 DEF Pins
  <2> QED
    BY <1>3, <2>1, <2>2 DEF Pins
<1> QED
  BY <1>2, <1>4 DEF Current, Seen

LEMMA BaseGrows ==
  ASSUME TypeOK, Grows, UNCHANGED <<options, began, known>>, NEW m \in Nat, Base(m)
  PROVE  Base(m)'
<1>1. m \in began' .. Len(log') /\ log'[m] = log[m]
  BY LogViews DEF TypeOK, Base, Grows
<1> QED
  BY <1>1 DEF Base, NoNewer, Pinned, Pins

LEMMA LogStep ==
  ASSUME Inv, NEW f \in File, Change(f)
  PROVE  Inv'
<1> USE DEF Inv
<1>1. Grows /\ Monotone' /\ NoNewer(Now, Now') /\ Now' \in Views
  BY ChangeGrows
<1>2. UNCHANGED <<options, entry, work, call, restarts>>
  BY DEF Change
<1>3. began \in 1 .. Len(log) /\ began \in Nat \ {0} /\ log'[began] = log[began]
  BY <1>1, LogViews DEF TypeOK, Grows
<1>4. TypeOK'
  BY <1>1, <1>2, <1>3 DEF TypeOK, Grows, entry, work, call
<1>5. ASSUME NEW val, NEW fp, Fits(val, fp) PROVE Fits(val, fp)'
  BY <1>1, <1>2, <1>5, LogViews, ViewOrder DEF Fits
<1>6. Keeps'
  BY <1>2, <1>3, <1>5 DEF Keeps, Fits, entry, work, call, NoNewer
<1>7. Answered'
  BY <1>1, <1>2, CurrentGrows DEF Answered, work, call
<1>8. Computes'
  <2>1. \A m \in Nat \ {0} : \A D, view : Seen(view, D, m) => SeenIn(log', view, D, m)
    BY <1>1, SeenGrows
  <2>2. \A m \in Nat : Base(m) => Base(m)' /\ m # 0
    BY <1>1, <1>2, <1>3, BaseGrows DEF work, call, Base
  <2>3. UNCHANGED <<options, scan, pc, known, began, asked, since, generation>>
    BY <1>2 DEF entry, work, call
  <2>4. pc' \in {"check", "before", "pins"} => Seen(scan, DOMAIN scan, began)'
    BY <1>3, <2>1, <2>3 DEF Computes, Seen
  <2>5. pc' = "pins" => Seen(known.before, File, began)'
    BY <1>3, <2>1, <2>3 DEF Computes, Seen
  <2>6. pc' = "load" => \E m \in Nat : Base(m)' /\ Seen(scan, DOMAIN scan, m)'
    BY <2>1, <2>2, <2>3 DEF Computes, Seen
  <2>7. pc' \in {"after", "repins"} => \E m \in Nat : Base(m)' /\ Seen(known.loaded, File, m)'
    BY <2>1, <2>2, <2>3 DEF Computes, Seen
  <2>8. pc' = "store" => Current(known.loaded, known.at)'
    BY <1>1, <2>3, CurrentGrows DEF Computes, Current, Seen
  <2> QED
    BY <2>3, <2>4, <2>5, <2>6, <2>7, <2>8 DEF Computes, Pinned, NoNewer
<1> QED
  BY <1>1, <1>4, <1>6, <1>7, <1>8

LEMMA CurrentKept ==
  ASSUME UNCHANGED <<options, log, began, asked>>, NEW view, NEW at, Current(view, at)
  PROVE  Current(view, at)'
<1>1. \A v : Pins(v)' = Pins(v)
  BY DEF Pins
<1>2. Since' = Since
  BY DEF Since
<1> QED
  BY <1>1, <1>2 DEF Current, Seen

(* An invalidation between any two steps.                                  *)
LEMMA InvalidateStep == ASSUME Inv, Invalidate PROVE Inv'
<1> USE DEF Inv
<1>1. /\ UNCHANGED <<options, log, value, snapshot, loadedAt, work, call>>
      /\ generation' = generation + 1 /\ print' = Nothing /\ generation \in Nat
  BY DEF Invalidate, TypeOK
<1>2. TypeOK'
  BY <1>1 DEF TypeOK, work, call
<1>3. Monotone' /\ Keeps'
  BY <1>1 DEF Monotone, Keeps, Fits, NoNewer, Now
<1>4. Answered'
  BY <1>1, CurrentKept DEF Answered, work, call
<1>5. Computes'
  <2>1. UNCHANGED <<options, log, pc, scan, known, since, began, asked>>
    BY <1>1 DEF work, call
  <2>2. \A m : Base(m)' <=> Base(m)
    BY <2>1 DEF Base, Pinned, Pins, NoNewer
  <2>3. pc' = "store" => Current(known.loaded, known.at)'
    BY <2>1, CurrentKept DEF Computes
  <2>4. known.at <= generation => known.at <= generation'
    BY <1>1 DEF TypeOK
  <2> QED
    BY <2>1, <2>2, <2>3, <2>4 DEF Computes, Seen, Pinned, NoNewer
<1> QED
  BY <1>2, <1>3, <1>4, <1>5

(* What the computation does concerns the entry and what it knows; of the  *)
(* past it changes nothing.                                                *)
LEMMA WorkStep ==
  ASSUME Inv, UNCHANGED <<options, log, generation, began, asked>>,
         TypeOK', Computes', Answered',
         \/ UNCHANGED <<value, print, snapshot, loadedAt>> /\ (pc' = "check" => pc = "check")
         \/ /\ Fits(value', print') /\ (print' # Nothing => loadedAt' = generation)
            /\ Fits(snapshot'.value, snapshot'.print) /\ pc' # "check"
  PROVE  Inv'
<1>1. Monotone'
  BY DEF Inv, Monotone, NoNewer
<1>2. Keeps'
  BY DEF Inv, Keeps, Fits, NoNewer, Now
<1> QED
  BY <1>1, <1>2 DEF Inv

LEMMA ScanGrows ==
  ASSUME Inv, NEW f \in File, Read(f)
  PROVE  /\ scan' \in Partial /\ DOMAIN scan' = DOMAIN scan \cup {f}
         /\ scan'[f] = Now[f] /\ \A g \in DOMAIN scan : scan'[g] = scan[g]
         /\ UNCHANGED <<options, log, entry, pc, known, attempt, since, answer, call>>
<1> USE DEF Inv, TypeOK
<1>1. DOMAIN scan \subseteq File /\ \A g \in DOMAIN scan : scan[g] \in Stat
  BY PartialFunction
<1>2. Now[f] \in Stat /\ f \notin DOMAIN scan
  BY LogViews DEF Views, Read
<1>3. scan' = [g \in DOMAIN scan \cup {f} |-> IF g = f THEN Now[f] ELSE scan[g]]
  BY DEF Read
<1>4. scan' \in [DOMAIN scan \cup {f} -> Stat] /\ DOMAIN scan \cup {f} \in SUBSET File
  BY <1>1, <1>2, <1>3
<1>5. scan' \in Partial
  BY <1>4 DEF Partial
<1> QED
  BY <1>2, <1>3, <1>5 DEF Read

LEMMA ReadStep ==
  ASSUME Inv, NEW f \in File, Read(f)
  PROVE  Inv'
<1> USE DEF Inv
<1>1. /\ scan' \in Partial /\ DOMAIN scan' = DOMAIN scan \cup {f}
      /\ scan'[f] = Now[f] /\ \A g \in DOMAIN scan : scan'[g] = scan[g]
      /\ UNCHANGED <<options, log, value, print, generation, snapshot, loadedAt, pc, known,
                     since, answer, began, asked>>
  BY ScanGrows DEF entry, call
<1>2. TypeOK'
  BY <1>1 DEF TypeOK
<1>3. ASSUME NEW m \in 1 .. Len(log), Seen(scan, DOMAIN scan, m)
      PROVE  Seen(scan, DOMAIN scan, m)'
  BY <1>1, <1>3, LogViews DEF Seen, SeenIn, Now
<1>4. ASSUME NEW m \in Nat, Base(m) PROVE m \in 1 .. Len(log) /\ Base(m)'
  <2>1. m \in 1 .. Len(log)
    BY <1>4, LogViews DEF TypeOK, Base
  <2> QED
    BY <1>1, <1>4, <2>1 DEF Base, Pinned, Pins, NoNewer
<1>5. pc \in {"after", "repins"} => \A g \in DOMAIN scan' : Le(known.loaded[g], scan'[g])
  <2> SUFFICES ASSUME pc \in {"after", "repins"}, NEW g \in DOMAIN scan'
               PROVE  Le(known.loaded[g], scan'[g])
    OBVIOUS
  <2>1. PICK m \in Nat : Base(m) /\ Seen(known.loaded, File, m)
    BY DEF Computes
  <2>2. Le(known.loaded[f], Now[f])
    BY <1>4, <2>1, SeenOrder
  <2> QED
    BY <1>1, <2>2 DEF Computes
<1>6. Computes'
  <2>1. began \in 1 .. Len(log)
    BY DEF TypeOK
  <2>2. pc' \in {"check", "before", "pins"} => Seen(scan, DOMAIN scan, began)'
    BY <1>1, <1>3, <2>1 DEF Computes, Seen
  <2>3. pc' = "load" => \E m \in Nat : Base(m)' /\ Seen(scan, DOMAIN scan, m)'
    BY <1>1, <1>3, <1>4 DEF Computes
  <2>4. pc' \in {"after", "repins"} => \E m \in Nat : Base(m)' /\ Seen(known.loaded, File, m)'
    BY <1>1, <1>4 DEF Computes, Seen
  <2>5. pc' # "store"
    BY <1>1 DEF Read
  <2> QED
    BY <1>1, <1>5, <2>2, <2>3, <2>4, <2>5 DEF Computes, Pinned, NoNewer, Seen
<1>7. Answered'
  BY <1>1, CurrentKept DEF Answered
<1> QED
  BY <1>1, <1>2, <1>6, <1>7, WorkStep

LEMMA GetStep == ASSUME Inv, Get PROVE Inv'
<1> USE DEF Inv
<1>1. /\ pc' = "check" /\ scan' = Nothing /\ known' = Unknown /\ answer' = Unanswered
      /\ began' = Len(log) /\ asked' = generation /\ since' = generation
      /\ UNCHANGED <<options, log, value, print, generation, snapshot, loadedAt>>
  BY DEF Get, Goes, entry
<1>2. TypeOK'
  BY <1>1, NothingIsPartial, UnknownType, LogViews DEF TypeOK
<1>3. Monotone'
  BY <1>1 DEF Monotone, NoNewer
<1>4. Keeps'
  BY <1>1 DEF Keeps, Fits, NoNewer, Now
<1>5. Computes' /\ Answered'
  BY <1>1, NothingIsPartial DEF Computes, Answered, Seen, SeenIn
<1> QED
  BY <1>2, <1>3, <1>4, <1>5

LEMMA RestartStep == ASSUME Inv, Restart PROVE Inv'
<1> USE DEF Inv
<1>1. /\ value' = snapshot.value /\ print' = snapshot.print /\ snapshot' = snapshot
      /\ generation' = 0 /\ loadedAt' = 0 /\ since' = 0 /\ asked' = 0
      /\ pc' = "idle" /\ scan' = Nothing /\ known' = Unknown /\ answer' = Unanswered
      /\ began' = Len(log) /\ UNCHANGED <<options, log>>
  BY DEF Restart
<1>2. TypeOK'
  BY <1>1, NothingIsPartial, UnknownType, LogViews DEF TypeOK
<1>3. Monotone' /\ Keeps'
  BY <1>1 DEF Monotone, Keeps, Fits, NoNewer, Now
<1>4. Computes' /\ Answered'
  BY <1>1 DEF Computes, Answered
<1> QED
  BY <1>2, <1>3, <1>4

LEMMA FailStep == ASSUME Inv, Fail PROVE Inv'
<1> USE DEF Inv
<1>1. /\ pc' = "idle" /\ scan' = Nothing
      /\ UNCHANGED <<options, log, value, print, generation, snapshot, loadedAt, known, since,
                     answer, began, asked>>
  BY DEF Fail, Goes, entry, call
<1>2. TypeOK' /\ Computes'
  BY <1>1, NothingIsPartial DEF TypeOK, Computes
<1>3. Answered'
  BY <1>1, CurrentKept DEF Answered
<1> QED
  BY <1>1, <1>2, <1>3, WorkStep

(* A fingerprint has been taken, and the files are pinned or loaded next.  *)
LEMMA BeginsStep ==
  ASSUME Inv, NEW before \in Partial, Begins(before),
         UNCHANGED <<options, log, entry, answer, call>>,
         since' \in {since, generation},
         IF options.changing THEN before = Nothing
                             ELSE before \in Views /\ Seen(before, File, began)
  PROVE  Inv'
<1> USE DEF Inv
<1>1. /\ scan' = Nothing /\ known' = [Unknown EXCEPT !.before = before, !.at = generation]
      /\ pc' = IF Pinned THEN "pins" ELSE "load"
      /\ UNCHANGED <<options, log, value, print, generation, snapshot, loadedAt, answer, began, asked>>
  BY DEF Begins, Goes, entry, call
<1>2. /\ known' \in [before : Partial, pins : Partial, loaded : Partial, after : Partial, at : Nat]
      /\ known'.before = before /\ known'.at = generation
  BY <1>1, UnknownType DEF TypeOK, Unknown
<1>3. TypeOK'
  BY <1>1, <1>2, NothingIsPartial DEF TypeOK
<1>4. began \in 1 .. Len(log) /\ Len(log) \in Nat
  BY LogViews DEF TypeOK
<1>5. pc' = "load" => Base(Len(log))'
  <2>1. ~options.changing => NoNewer(before, Now)
    BY <1>4, SeenOrder DEF NoNewer
  <2> QED
    BY <1>1, <1>2, <1>4, <2>1 DEF Base, Pinned, NoNewer, Now
<1>6. \A m : Seen(scan, DOMAIN scan, m)'
  BY <1>1, NothingIsPartial DEF Seen, SeenIn
<1>7. Computes'
  BY <1>1, <1>2, <1>3, <1>4, <1>5, <1>6 DEF Computes, Pinned, Seen, TypeOK
<1>8. Answered'
  BY <1>1, CurrentKept DEF Answered
<1> QED
  BY <1>1, <1>3, <1>7, <1>8, WorkStep

LEMMA CheckStep == ASSUME Inv, Check PROVE Inv'
<1> USE DEF Inv
<1>1. /\ pc = "check" /\ DOMAIN scan = File /\ scan \in Views /\ scan \in Partial
      /\ Seen(scan, File, began) /\ UNCHANGED <<options, log, entry, call>>
  BY PartialFunction DEF Check, Done, TypeOK, Computes
<1>2. CASE Serves /\ Answers(value, loadedAt) /\ UNCHANGED <<known, since>>
  <2>1. Current(value, loadedAt)
    BY <1>1, <1>2, ServedIsCurrent
  <2>2. /\ pc' = "idle" /\ scan' = Nothing /\ answer' = [view |-> value, at |-> loadedAt]
        /\ UNCHANGED <<options, log, value, print, generation, snapshot, loadedAt, known, since,
                       began, asked>>
    BY <1>1, <1>2 DEF Answers, Goes, entry, call
  <2>3. TypeOK' /\ Computes'
    BY <2>2, NothingIsPartial DEF TypeOK, Computes
  <2>4. Answered'
    BY <2>1, <2>2, CurrentKept DEF Answered
  <2> QED
    BY <2>2, <2>3, <2>4, WorkStep
<1>3. CASE since' = generation /\ UNCHANGED answer /\ options.changing /\ Begins(Nothing)
  BY <1>1, <1>3, BeginsStep, NothingIsPartial
<1>4. CASE since' = generation /\ UNCHANGED answer /\ ~options.changing /\ Begins(scan)
  BY <1>1, <1>4, BeginsStep
<1>5. CASE /\ since' = generation /\ UNCHANGED <<answer, known>> /\ Goes("before")
           /\ ~options.changing
  <2>1. /\ pc' = "before" /\ scan' = Nothing /\ since' = generation
        /\ UNCHANGED <<options, log, value, print, generation, snapshot, loadedAt, known, answer,
                       began, asked>>
    BY <1>1, <1>5 DEF Goes, entry, call
  <2>2. TypeOK' /\ Computes'
    BY <1>5, <2>1, NothingIsPartial DEF TypeOK, Computes, Seen, SeenIn
  <2>3. Answered'
    BY <2>1, CurrentKept DEF Answered
  <2> QED
    BY <2>1, <2>2, <2>3, WorkStep
<1> QED
  BY <1>2, <1>3, <1>4, <1>5 DEF Check

LEMMA KnownFields ==
  ASSUME TypeOK, NEW v \in Partial
  PROVE  /\ [known EXCEPT !.loaded = v].loaded = v
         /\ [known EXCEPT !.loaded = v].before = known.before
         /\ [known EXCEPT !.loaded = v].pins = known.pins
         /\ [known EXCEPT !.loaded = v].at = known.at
         /\ [known EXCEPT !.loaded = v] \in
              [before : Partial, pins : Partial, loaded : Partial, after : Partial, at : Nat]
         /\ [known EXCEPT !.after = v].after = v
         /\ [known EXCEPT !.after = v].loaded = known.loaded
         /\ [known EXCEPT !.after = v].before = known.before
         /\ [known EXCEPT !.after = v].pins = known.pins
         /\ [known EXCEPT !.after = v].at = known.at
         /\ [known EXCEPT !.after = v] \in
              [before : Partial, pins : Partial, loaded : Partial, after : Partial, at : Nat]
         /\ [known EXCEPT !.pins = v, !.at = generation].pins = v
         /\ [known EXCEPT !.pins = v, !.at = generation].before = known.before
         /\ [known EXCEPT !.pins = v, !.at = generation].at = generation
         /\ [known EXCEPT !.pins = v, !.at = generation] \in
              [before : Partial, pins : Partial, loaded : Partial, after : Partial, at : Nat]
BY DEF TypeOK

LEMMA ViewsArePartial == Views \subseteq Partial
BY DEF Views, Partial

LEMMA ReconcileStep == ASSUME Inv, Reconcile PROVE Inv'
<1> USE DEF Inv
<1>1. /\ UNCHANGED <<options, log, value, print, generation, snapshot, loadedAt, since, answer,
                     began, asked>>
      /\ DOMAIN scan = File /\ scan \in Views /\ scan \in Partial /\ scan' = Nothing
  BY PartialFunction DEF Reconcile, Done, TypeOK, entry, call, Begins, Goes
<1>2. Answered'
  BY <1>1, CurrentKept DEF Answered
<1>3. began \in 1 .. Len(log) /\ Len(log) \in Nat
  BY LogViews DEF TypeOK
<1>4. \A m : Seen(scan, DOMAIN scan, m)'
  BY <1>1, NothingIsPartial DEF Seen, SeenIn
<1>5. CASE Done("before") /\ Begins(scan)
  BY <1>1, <1>5, BeginsStep DEF Reconcile, Done, Computes
<1>6. CASE Done("pins") /\ Goes("load") /\ known' = [known EXCEPT !.pins = Pins(scan), !.at = generation]
  <2>1. NoNewer(scan, Now) /\ NoNewer(known.before, Now) /\ known.before \in Views /\ Pinned
    BY <1>1, <1>3, <1>6, SeenOrder DEF Computes, Done, NoNewer
  <2>2. Pins(scan) \in Views /\ NoNewer(Pins(scan), Pins(Now)) /\ Pins(scan) \in Partial
    BY <1>1, <2>1, PinsOrder, LogViews, ViewsArePartial
  <2>3. /\ known'.pins = Pins(scan) /\ known'.before = known.before /\ known'.at = generation
        /\ known' \in [before : Partial, pins : Partial, loaded : Partial, after : Partial, at : Nat]
    BY <1>6, <2>2, KnownFields
  <2>4. pc' = "load"
    BY <1>6 DEF Goes
  <2>5. TypeOK'
    BY <1>1, <2>3, NothingIsPartial DEF TypeOK
  <2>6. Base(Len(log))'
    BY <1>1, <1>3, <2>1, <2>2, <2>3 DEF Base, Pinned, Pins, NoNewer, Now
  <2>7. Computes'
    BY <1>1, <1>3, <1>4, <2>3, <2>4, <2>6 DEF Computes, TypeOK
  <2> QED
    BY <1>1, <1>2, <2>4, <2>5, <2>7, WorkStep
<1>7. CASE Done("load") /\ Goes("after") /\ known' = [known EXCEPT !.loaded = scan]
  <2>1. /\ known'.loaded = scan /\ known'.before = known.before /\ known'.pins = known.pins
        /\ known'.at = known.at
        /\ known' \in [before : Partial, pins : Partial, loaded : Partial, after : Partial, at : Nat]
    BY <1>1, <1>7, KnownFields
  <2>2. pc = "load" /\ pc' = "after"
    BY <1>7 DEF Goes, Done
  <2>3. TypeOK'
    BY <1>1, <2>1, NothingIsPartial DEF TypeOK
  <2>4. PICK m \in Nat : Base(m) /\ Seen(scan, File, m)
    BY <1>1, <2>2 DEF Computes
  <2>5. Base(m)' /\ Seen(known.loaded, File, m)'
    BY <1>1, <2>1, <2>4 DEF Base, Pinned, Pins, NoNewer, Seen
  <2>6. Computes'
    BY <1>1, <2>1, <2>2, <2>5, NothingIsPartial DEF Computes
  <2> QED
    BY <1>1, <1>2, <2>2, <2>3, <2>6, WorkStep
<1>8. CASE Done("after") /\ Pinned /\ Goes("repins") /\ known' = [known EXCEPT !.after = scan]
  <2>1. /\ known'.loaded = known.loaded /\ known'.before = known.before /\ known'.pins = known.pins
        /\ known'.at = known.at /\ known'.after = scan
        /\ known' \in [before : Partial, pins : Partial, loaded : Partial, after : Partial, at : Nat]
    BY <1>1, <1>8, KnownFields
  <2>2. pc = "after" /\ pc' = "repins"
    BY <1>8 DEF Goes, Done
  <2>3. TypeOK'
    BY <1>1, <2>1, NothingIsPartial DEF TypeOK
  <2>4. PICK m \in Nat : Base(m) /\ Seen(known.loaded, File, m)
    BY <2>2 DEF Computes
  <2>5. Base(m)' /\ Seen(known.loaded, File, m)'
    BY <1>1, <2>1, <2>4 DEF Base, Pinned, Pins, NoNewer, Seen
  <2>6. NoNewer(known.loaded, scan)
    BY <1>1, <2>2 DEF Computes, NoNewer
  <2>7. Computes'
    BY <1>1, <1>8, <2>1, <2>2, <2>5, <2>6, NothingIsPartial DEF Computes, Pinned, NoNewer
  <2> QED
    BY <1>1, <1>2, <2>2, <2>3, <2>7, WorkStep
<1> QED
  BY <1>5, <1>6, <1>7, <1>8 DEF Reconcile

(* A computation that found the files stable: what it loaded may be        *)
(* answered, and if its fingerprints are the same in everything, what it   *)
(* loaded is this fingerprint.                                             *)
LEMMA StableLoad ==
  ASSUME Inv, pc = (IF Pinned THEN "repins" ELSE "after"), DOMAIN scan = File,
         NEW after, after = (IF Pinned THEN known.after ELSE scan),
         options.changing \/ Stable(after)
  PROVE  /\ after \in Views /\ known.loaded \in Views
         /\ Current(known.loaded, known.at) /\ NoNewer(known.loaded, Now)
         /\ known.before = after /\ after # Nothing =>
              /\ known.loaded = after /\ ~options.changing
              /\ known.at = generation
<1> USE DEF Inv
<1>1. scan \in Views /\ known.loaded \in Views /\ NoNewer(known.loaded, scan)
  BY PartialFunction DEF TypeOK, Computes, NoNewer
<1>2. after \in Views /\ NoNewer(known.loaded, after)
  BY <1>1 DEF Computes
<1>3. PICK m \in Nat : Base(m) /\ Seen(known.loaded, File, m)
  BY DEF Computes
<1>4. m \in 1 .. Len(log) /\ log[m] \in Views
  BY <1>3, LogViews DEF Base, TypeOK
<1>5. NoNewer(log[m], known.loaded) /\ NoNewer(known.loaded, Now)
  BY <1>3, <1>4, SeenOrder DEF NoNewer
<1>6. since <= known.at /\ known.at <= generation /\ known.at >= asked
      /\ (~options.changing => known.at = generation)
  <2>1. since <= known.at /\ known.at <= generation
    BY DEF Computes
  <2> QED
    BY <2>1 DEF Stable, TypeOK
<1>7. options.changing \/ \E v \in Views :
         NoNewer(known.loaded, v) /\ IF Pinned THEN Pins(v) = known.pins ELSE v = known.before
  BY <1>1, <1>2 DEF Stable
<1>8. Current(known.loaded, known.at)
  BY <1>1, <1>3, <1>6, <1>7, LoadIsCurrent
<1>9. ASSUME known.before = after, after # Nothing
      PROVE  known.loaded = after /\ ~options.changing
  <2>1. ~options.changing /\ NoNewer(known.before, log[m])
    BY <1>3, <1>9 DEF Base
  <2>2. NoNewer(after, known.loaded)
    BY <1>1, <1>2, <1>4, <1>5, <1>9, <2>1, ViewOrder
  <2> QED
    BY <1>1, <1>2, <2>1, <2>2, ViewOrder
<1> QED
  BY <1>1, <1>2, <1>5, <1>6, <1>8, <1>9

LEMMA ConcludeStep == ASSUME Inv, Conclude PROVE Inv'
<1> USE DEF Inv
<1> DEFINE after == IF Pinned THEN known.after ELSE scan
<1>1. /\ pc = (IF Pinned THEN "repins" ELSE "after") /\ DOMAIN scan = File /\ scan' = Nothing
      /\ UNCHANGED <<options, log, generation, snapshot, began, asked>>
  BY DEF Conclude, Done, Answers, Goes, call
<1>2. CASE ~options.changing /\ since' = generation /\ Goes("before") /\ known' = Unknown
           /\ UNCHANGED <<value, loadedAt, print, answer>>
  <2>1. TypeOK'
    BY <1>1, <1>2, NothingIsPartial, UnknownType DEF TypeOK
  <2>2. Computes' /\ Answered'
    BY <1>1, <1>2, NothingIsPartial, CurrentKept DEF Computes, Answered, Goes, Seen, SeenIn
  <2> QED
    BY <1>1, <1>2, <2>1, <2>2, WorkStep DEF Goes
<1>3. CASE Goes("idle") /\ UNCHANGED <<value, loadedAt, print, answer, since, known>>
  <2>1. TypeOK'
    BY <1>1, <1>3, NothingIsPartial DEF TypeOK
  <2>2. Computes' /\ Answered'
    BY <1>1, <1>3, CurrentKept DEF Computes, Answered, Goes
  <2> QED
    BY <1>1, <1>3, <2>1, <2>2, WorkStep DEF Goes
<1>4. CASE /\ options.changing \/ Stable(after)
           /\ value' = known.loaded /\ loadedAt' = known.at
           /\ print' = IF known.before = after THEN after ELSE Nothing
           /\ IF print' = Nothing THEN Answers(known.loaded, known.at) /\ UNCHANGED known
              ELSE /\ Goes("store") /\ known' = [known EXCEPT !.after = after]
                   /\ UNCHANGED answer
           /\ UNCHANGED since
  <2>1. /\ after \in Views /\ known.loaded \in Views
        /\ Current(known.loaded, known.at) /\ NoNewer(known.loaded, Now)
        /\ known.before = after /\ after # Nothing =>
             known.loaded = after /\ ~options.changing /\ known.at = generation
    BY <1>1, <1>4, StableLoad
  <2> HIDE DEF after
  <2>2. Fits(value', print') /\ (print' # Nothing => loadedAt' = generation)
    BY <1>4, <2>1 DEF Fits
  <2>3. Fits(snapshot'.value, snapshot'.print)
    BY <1>1 DEF Keeps
  <2>4. known.at \in Nat
    BY DEF TypeOK
  <2>5. CASE print' = Nothing
    <3>1. /\ pc' = "idle" /\ answer' = [view |-> known.loaded, at |-> known.at]
          /\ UNCHANGED <<known, since>> /\ loadedAt' = known.at
      BY <1>4, <2>5 DEF Answers, Goes
    <3>2. TypeOK'
      BY <1>1, <2>4, <3>1, NothingIsPartial DEF TypeOK
    <3>3. Computes' /\ Answered'
      BY <1>1, <2>1, <3>1, CurrentKept DEF Computes, Answered
    <3> QED
      BY <1>1, <2>2, <2>3, <3>1, <3>2, <3>3, WorkStep
  <2>6. CASE print' # Nothing
    <3>1. /\ pc' = "store" /\ known' = [known EXCEPT !.after = after] /\ UNCHANGED <<answer, since>>
          /\ known.loaded = after /\ ~options.changing /\ loadedAt' = known.at
      BY <1>4, <2>1, <2>6 DEF Goes
    <3>2. /\ known'.loaded = known.loaded /\ known'.after = after /\ known'.at = known.at
          /\ known' \in [before : Partial, pins : Partial, loaded : Partial, after : Partial, at : Nat]
      BY <2>1, <3>1, KnownFields, ViewsArePartial
    <3>3. TypeOK'
      BY <1>1, <2>4, <3>1, <3>2, NothingIsPartial DEF TypeOK
    <3>4. Current(known.loaded, known.at)'
      BY <1>1, <2>1, <3>2, CurrentKept
    <3>5. Computes' /\ Answered'
      BY <1>1, <2>1, <3>1, <3>2, <3>4, CurrentKept DEF Computes, Answered
    <3> QED
      BY <1>1, <2>2, <2>3, <3>1, <3>3, <3>5, WorkStep
  <2> QED
    BY <2>5, <2>6
<1> QED
  BY <1>2, <1>3, <1>4 DEF Conclude

LEMMA StoreStep == ASSUME Inv, Store PROVE Inv'
<1> USE DEF Inv
<1>1. /\ pc = "store" /\ pc' = "idle" /\ scan' = Nothing
      /\ answer' = [view |-> known.loaded, at |-> known.at]
      /\ snapshot' = [value |-> known.loaded, print |-> known.after]
      /\ UNCHANGED <<options, log, value, print, generation, loadedAt, known, since, began, asked>>
  BY DEF Store, Answers, Goes, call
<1>2. /\ known.loaded = known.after /\ known.loaded \in Views /\ ~options.changing
      /\ Current(known.loaded, known.at)
  BY <1>1 DEF Computes
<1>3. NoNewer(known.loaded, Now)
  BY <1>2, SeenOrder DEF Current, NoNewer, TypeOK
<1>4. Fits(snapshot'.value, snapshot'.print) /\ Fits(value', print')
      /\ (print' # Nothing => loadedAt' = generation)
  BY <1>1, <1>2, <1>3 DEF Fits, Keeps, NoNewer, Now
<1>5. TypeOK' /\ Computes'
  BY <1>1, NothingIsPartial DEF TypeOK, Computes
<1>6. Answered'
  BY <1>1, <1>2, CurrentKept DEF Answered
<1> QED
  BY <1>1, <1>4, <1>5, <1>6, WorkStep

LEMMA InvStep == Inv /\ [Next]_vars => Inv'
<1> SUFFICES ASSUME Inv, [Next]_vars PROVE Inv'
  OBVIOUS
<1>1. CASE UNCHANGED vars
  <2>1. /\ UNCHANGED <<options, log, generation, began, asked, value, print, snapshot, loadedAt,
                       pc, scan, known, since, answer>>
    BY <1>1 DEF vars, entry, work, call
  <2>2. TypeOK'
    BY <2>1 DEF Inv, TypeOK
  <2>3. Answered'
    BY <2>1, CurrentKept DEF Inv, Answered
  <2>4. \A m : Base(m)' <=> Base(m)
    BY <2>1 DEF Base, Pinned, Pins, NoNewer
  <2>5. pc' = "store" => Current(known.loaded, known.at)'
    BY <2>1, CurrentKept DEF Inv, Computes
  <2>6. Computes'
    BY <2>1, <2>4, <2>5 DEF Inv, Computes, Seen, Pinned, NoNewer
  <2> QED
    BY <2>1, <2>2, <2>3, <2>6, WorkStep
<1> QED
  BY <1>1, LogStep, ReadStep, InvalidateStep, GetStep, CheckStep, ReconcileStep, ConcludeStep,
     StoreStep, FailStep, RestartStep DEF Next

THEOREM CacheInvariant == ASSUME CacheConstants PROVE Spec => []Inv
BY InvInit, InvStep, PTL DEF Spec

(* An answer is no older than the request that caused it: each file is as  *)
(* it was at a moment since then; what must not change during a load, at   *)
(* one moment for all files; and the load began after every invalidation   *)
(* that came before the request.                                           *)
THEOREM AnswersStayCurrent == ASSUME CacheConstants PROVE Spec => []AnswersAreCurrent
<1>1. Answered => AnswersAreCurrent
  BY Zenon DEF Answered, AnswersAreCurrent, Current, Seen, SeenIn, Since
<1>2. Inv => Answered
  BY DEF Inv
<1> QED
  BY <1>1, <1>2, CacheInvariant, PTL
=============================================================================
