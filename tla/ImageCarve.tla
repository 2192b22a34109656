----------------------------- MODULE ImageCarve -----------------------------
(***************************************************************************)
(* The windowed scan of a whole-image carve                                *)
(* (browser-forensic-imagecarve/src/lib.rs, carve_image_with): overlapping  *)
(* windows over an image whose reads may stop short, every SQLite signature *)
(* in them, and the databases behind the signatures.                       *)
(*                                                                         *)
(* Offsets and lengths are scaled down together; where a signature starts   *)
(* is all that is kept of the bytes.  What a database yields is            *)
(* sqlite-core's business: any number of records up to the cap.            *)
(***************************************************************************)
EXTENDS Integers

CONSTANTS
    Length,          \* bytes in the image
    WindowAsked,     \* the window and overlap the caller asks for
    OverlapAsked,
    WindowFloor,     \* 4096
    Magic,           \* length of a signature: 16
    MaxArtifacts,    \* MAX_ARTIFACTS
    MaxCarves,       \* MAX_SQLITE_CARVES
    MaxPerDb         \* MAX_RECORDS_PER_DB

ASSUME SizesAssumption ==
    /\ Length \in Nat /\ WindowAsked \in Nat /\ OverlapAsked \in Nat
    /\ Magic \in Nat /\ Magic > 0
    /\ WindowFloor \in Nat /\ WindowFloor >= 2 * Magic

ASSUME CapsAssumption ==
    MaxArtifacts \in Nat \ {0} /\ MaxCarves \in Nat /\ MaxPerDb \in Nat

VARIABLES
    sqlite,     \* image: where a SQLite signature starts
    reads,      \* image: its reads "deliver" what is there, or are "cut" short
    build,      \* integer arithmetic is "checked", or "wraps" (release)
    pc,         \* "read", "scan", "done", or "overflow"
    base,       \* start of the window
    n,          \* bytes of it that were read
    todo,       \* hits of the window not yet handled
    seen,       \* seen_sqlite
    carves,     \* sqlite_carves
    artifacts,  \* artifacts emitted
    carved,     \* history: how often each signature was carved
    lost        \* history: signatures in the unread end of some window

image == <<sqlite, reads, build>>
results == <<seen, carves, artifacts, carved>>
vars == <<image, pc, base, n, todo, results, lost>>

Lower(a, b)  == IF a <= b THEN a ELSE b
Higher(a, b) == IF a >= b THEN a ELSE b

Window == Higher(WindowAsked, WindowFloor)

\* Mistake: the floor of the overlap is forgotten.
OverlapUnfloored == Lower(OverlapAsked, Window \div 2)

Overlap == Higher(Lower(OverlapAsked, Window \div 2), Magic)

Step == Higher(Window - Overlap, 1)

\* Where a signature fits.
Starts == {m \in 0..Length : m + Magic <= Length}

\* Signatures do not overlap one another.
Spaced(S) == \A a, b \in S : a < b => a + Magic <= b

\* fill: all of it, or what came before a read that gave nothing.
Fills(want) == IF reads = "cut" THEN 0..want ELSE {want}

\* find_all over the bytes read of the window.
HitsIn(from, len) == {m \in sqlite : from <= m /\ m + Magic <= from + len}

TypeOK ==
    /\ sqlite \in SUBSET Starts
    /\ reads \in {"deliver", "cut"} /\ build \in {"checked", "wraps"}
    /\ pc \in {"read", "scan", "done", "overflow"}
    /\ base \in Nat /\ n \in Nat
    /\ todo \in SUBSET sqlite /\ seen \in SUBSET sqlite /\ lost \in SUBSET sqlite
    /\ carves \in Nat /\ artifacts \in Nat
    /\ carved \in [Starts -> Nat]

Init ==
    /\ sqlite \in SUBSET Starts /\ Spaced(sqlite)
    /\ reads \in {"deliver", "cut"} /\ build \in {"checked", "wraps"}
    /\ pc = IF Length = 0 THEN "done" ELSE "read"
    /\ base = 0 /\ n = 0
    /\ todo = {} /\ seen = {} /\ lost = {}
    /\ carves = 0 /\ artifacts = 0
    /\ carved = [m \in Starts |-> 0]

-----------------------------------------------------------------------------
\* The length of the window is taken as `len - base` and clipped to the
\* window's.  Past the end the difference underflows: a build that checks
\* panics, any other gets a huge number, clips it and reads nothing.
ReadWindow ==
    /\ pc = "read"
    /\ IF base <= Length
       THEN LET want == Lower(Length - base, Window) IN
            \E got \in Fills(want) :
               /\ n' = got
               /\ todo' = HitsIn(base, got)
               /\ lost' = lost \cup (HitsIn(base, want) \ HitsIn(base, got))
               /\ pc' = "scan"
       ELSE /\ pc' = IF build = "checked" THEN "overflow" ELSE "scan"
            /\ n' = 0 /\ todo' = {} /\ UNCHANGED lost
    /\ UNCHANGED <<image, base, results>>

\* carve_sqlite_at: the records found, at most MaxPerDb.
CarveAt(m) ==
    /\ carved' = [carved EXCEPT ![m] = @ + 1]
    /\ carves' = carves + 1
    /\ \E records \in 0..MaxPerDb : artifacts' = artifacts + records

\* Mistake: a signature in an overlap is carved in both windows.
CarveHitAgain ==
    /\ pc = "scan"
    /\ \E m \in todo :
       /\ \A k \in todo : m <= k
       /\ todo' = todo \ {m} /\ seen' = seen \cup {m}
       /\ IF carves < MaxCarves
          THEN /\ CarveAt(m)
               /\ pc' = IF artifacts' >= MaxArtifacts THEN "done" ELSE pc
          ELSE UNCHANGED <<pc, carves, artifacts, carved>>
    /\ UNCHANGED <<image, base, n, lost>>

\* The next signature of the window, in ascending order: a new one is noted
\* and, below the cap, carved.
CarveHit ==
    /\ pc = "scan"
    /\ \E m \in todo :
       /\ \A k \in todo : m <= k
       /\ todo' = todo \ {m} /\ seen' = seen \cup {m}
       /\ IF m \notin seen /\ carves < MaxCarves
          THEN /\ CarveAt(m)
               /\ pc' = IF artifacts' >= MaxArtifacts THEN "done" ELSE pc
          ELSE UNCHANGED <<pc, carves, artifacts, carved>>
    /\ UNCHANGED <<image, base, n, lost>>

\* Mistake: the end is passed by one window.
NextWindowPastEnd ==
    /\ pc = "scan" /\ todo = {}
    /\ IF base + n > Length
       THEN pc' = "done" /\ UNCHANGED base
       ELSE pc' = "read" /\ base' = base + Step
    /\ UNCHANGED <<image, n, todo, results, lost>>

\* Mistake: the scan goes on from where the read stopped.
NextWindowAfterRead ==
    /\ pc = "scan" /\ todo = {}
    /\ IF base + n >= Length
       THEN pc' = "done" /\ UNCHANGED base
       ELSE pc' = "read" /\ base' = base + Lower(Step, n)
    /\ UNCHANGED <<image, n, todo, results, lost>>

NextWindow ==
    /\ pc = "scan" /\ todo = {}
    /\ IF base + n >= Length
       THEN pc' = "done" /\ UNCHANGED base
       ELSE pc' = "read" /\ base' = base + Step
    /\ UNCHANGED <<image, n, todo, results, lost>>

Next == ReadWindow \/ CarveHit \/ NextWindow

Spec == Init /\ [][Next]_vars

\* One thread, and no waits in it.
FairSpec == Spec /\ WF_vars(Next)

-----------------------------------------------------------------------------
(* Properties.                                                             *)

\* The scan is complete: when it ends and no cap was reached, every SQLite
\* signature of the image was carved exactly once, wherever it straddles the
\* windows.  A read that stops short loses only signatures in the part of its
\* window that was not read.
EverySignatureCarvedOnce ==
    /\ \A m \in sqlite : carved[m] <= 1
    /\ pc = "done" /\ artifacts < MaxArtifacts /\ carves < MaxCarves =>
          \A m \in sqlite : carved[m] = 1 \/ m \in lost

\* However many signatures an image is made of, what is opened and what is
\* emitted is bounded: the last database may exceed MAX_ARTIFACTS by less
\* than its own cap.
WorkBounded ==
    /\ carves <= MaxCarves
    /\ artifacts < MaxArtifacts + MaxPerDb + 1

\* As long as reads deliver what the image holds, "len - base" never
\* underflows.
NeverOverflows == reads = "deliver" => pc # "overflow"

\* The scan stays in the bounds it is given: of work by its caps, of the image by its
\* offsets.
ScanStaysInBounds == WorkBounded /\ NeverOverflows

\* The scan ends on every image, whatever its reads return.
ScanEnds == <>(pc \in {"done", "overflow"})

-----------------------------------------------------------------------------
(* What the documentation says of the carve and the code does not do.      *)

\* lib.rs 115: "panic-free on arbitrary bytes".
PanicFree == pc # "overflow"

-----------------------------------------------------------------------------
(* The inductive invariant: everything that starts before the window is     *)
(* seen or lost, and so is everything in it that is not still to do.        *)

Handled == seen \cup lost \cup todo

Behind ==
    /\ pc = "read" => \A m \in sqlite : m < base => m \in Handled
    /\ pc = "scan" =>
          /\ \A m \in sqlite : m < base + Step => m \in Handled
          /\ base + n >= Length => sqlite \subseteq Handled
    /\ pc = "done" /\ artifacts < MaxArtifacts => sqlite \subseteq Handled
    /\ pc # "scan" /\ artifacts < MaxArtifacts => todo = {}

Counted ==
    /\ \A m \in Starts : carved[m] <= 1 /\ (carved[m] = 1 => m \in seen)
    /\ carves < MaxCarves => \A m \in seen : carved[m] = 1
    /\ carves <= MaxCarves
    /\ artifacts <= MaxArtifacts + MaxPerDb
    /\ pc \notin {"done"} => artifacts < MaxArtifacts

\* Without short reads the window starts within the image.
Inside ==
    reads = "deliver" =>
        /\ base <= Length /\ pc # "overflow"
        /\ pc = "scan" => n = Lower(Length - base, Window)

IInv == TypeOK /\ Behind /\ Counted /\ Inside
=============================================================================
