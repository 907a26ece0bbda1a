------------------------- MODULE SessionFilesProofs -------------------------
(***************************************************************************)
(* Proofs about SessionStore and SessionServer: the files of sessions,     *)
(* while no running session is forked, on every state that a crash can     *)
(* leave.  A start is never refused, every discard has its owner, what was *)
(* discarded does not return, what was answered is loaded, and the cache   *)
(* agrees with the files.                                                  *)
(***************************************************************************)
EXTENDS SessionProofs

\* The sets of positions of a call, as in SessionProofs.
USE DEF Heading, Waking, Hibernating, Loading, Finishing, Fitting, StartPcs, QuietPcs, DiscardPcs, LeasePcs,
        LeaseThens, DiscardThens, ScriptPcs, ReleasePcs, TableFree, Taken

-----------------------------------------------------------------------------
(* While no running session is forked, the files are what a start expects *)

Of(ns, s) == {f \in ns.files : f.session = s}

\* The quarantined files of a session.
Aside(ns, s) == {f \in Of(ns, s) : f.intent # "Active"}

\* A session has one active reference and one quarantined one at most; a superseded one has
\* its replacement, and the active one is the newest.
FilesOK(ns, s) ==
  /\ \A f \in Of(ns, s) : f.last_used # 0 /\ <<s, f.last_used>> \in ns.blobs
  /\ \A f, g \in Of(ns, s) : (f.intent = "Active" <=> g.intent = "Active") => f = g
  /\ \A f \in Of(ns, s) : f.intent = "Active" => f.nonce = 0
  /\ \A f \in Of(ns, s) : f.intent = "Superseded" => Exists(ns, s, Reference)
  /\ \A f, g \in Of(ns, s) : f.intent = "Active" /\ g.intent \in {"Restore", "Superseded"} =>
                               g.last_used <= f.last_used

\* The active reference of s is the file that Reference finds.
LEMMA ActiveFacts ==
  ASSUME NEW ns, NEW s, FilesOK(ns, s)
  PROVE  /\ Exists(ns, s, Reference) <=> \E f \in Of(ns, s) : f.intent = "Active"
         /\ \A f \in Of(ns, s) : f.intent = "Active" => LastUsed(ns, s, Reference) = f.last_used
         /\ \A f \in Of(ns, s) : f.intent = "Active" => f \in At(ns, s, Reference)
<1>1. At(ns, s, Reference) = {f \in Of(ns, s) : f.nonce = 0 /\ f.intent = "Active"}
  BY PathFacts DEF At, Of
<1>2. \A f \in Of(ns, s) : f.intent = "Active" => f \in At(ns, s, Reference)
  BY <1>1 DEF FilesOK
<1>3. Exists(ns, s, Reference) <=> \E f \in Of(ns, s) : f.intent = "Active"
  BY <1>1, <1>2 DEF Exists
<1>4. \A f, g \in At(ns, s, Reference) : f = g
  BY <1>1 DEF FilesOK
<1>5. \A f \in At(ns, s, Reference) : LastUsed(ns, s, Reference) = f.last_used
  BY <1>4 DEF LastUsed, Exists
<1> QED
  BY <1>2, <1>3, <1>5

LEMMA AtFacts ==
  ASSUME NEW ns, NEW s, NEW path, FilesOK(ns, s), NEW g \in At(ns, s, path)
  PROVE  /\ g \in Of(ns, s) /\ g.intent = path.intent /\ g.nonce = path.nonce
         /\ LastUsed(ns, s, path) = g.last_used /\ At(ns, s, path) = {g}
<1>1. \A f \in At(ns, s, path) : f \in Of(ns, s) /\ f.intent = path.intent /\ f.nonce = path.nonce
  BY DEF At, Of
<1>2. \A f \in At(ns, s, path) : f = g
  BY <1>1 DEF FilesOK
<1> QED
  BY <1>1, <1>2 DEF LastUsed, Exists

\* Operations on one session leave the others alone.
LEMMA SameFiles ==
  ASSUME NEW a, NEW b, NEW s, Of(a, s) = Of(b, s), a.blobs \subseteq b.blobs
  PROVE  /\ \A path : At(a, s, path) = At(b, s, path) /\ LastUsed(a, s, path) = LastUsed(b, s, path)
         /\ \A path : Exists(a, s, path) <=> Exists(b, s, path)
         /\ FilesOK(a, s) => FilesOK(b, s)
<1>1. \A path : At(a, s, path) = At(b, s, path)
  <2> TAKE path
  <2>1. /\ At(a, s, path) = {f \in Of(a, s) : f.nonce = path.nonce /\ f.intent = path.intent}
        /\ At(b, s, path) = {f \in Of(b, s) : f.nonce = path.nonce /\ f.intent = path.intent}
    BY DEF At, Of
  <2> QED
    BY <2>1
<1>2. \A path : (Exists(a, s, path) <=> Exists(b, s, path)) /\ LastUsed(a, s, path) = LastUsed(b, s, path)
  <2> TAKE path
  <2>1. At(a, s, path) = At(b, s, path)
    BY <1>1
  <2> QED
    BY <2>1 DEF Exists, LastUsed
<1>3. FilesOK(a, s) => FilesOK(b, s)
  BY <1>2 DEF FilesOK
<1> QED
  BY <1>1, <1>2, <1>3

\* The files of s after one of them has moved to another place.
MovedTo(ns, ns2, s, from, w) ==
  /\ ns2.blobs = ns.blobs /\ w \in Of(ns2, s)
  /\ \A f \in Of(ns2, s) : f = w \/ (f \in Of(ns, s) /\ f \notin At(ns, s, from))
  /\ \A f \in Of(ns, s) : f \in Of(ns2, s) \/ f \in At(ns, s, from)
                          \/ (f.intent = w.intent /\ f.nonce = w.nonce)
  /\ \A r : r # s => Of(ns2, r) = Of(ns, r)

LEMMA MoveFiles ==
  ASSUME NEW ns \in Namespace, IsFiniteSet(ns.files), NEW s \in Sessions, NEW from \in Paths,
         NEW to \in Paths, to.intent # "Blob"
  PROVE  MovedTo(ns, Put(Drop(ns, s, from), s, to, LastUsed(ns, s, from)), s, from,
                 Written(s, to, LastUsed(ns, s, from)))
<1>1. PICK used \in 0 .. MaxClock : used = LastUsed(ns, s, from)
  BY LastUsedFacts
<1>2. PICK d \in Namespace : d = Drop(ns, s, from)
  BY DropFacts
<1>3. IsFiniteSet(d.files) /\ d.files = ns.files \ At(ns, s, from) /\ d.blobs = ns.blobs
  BY <1>2, DropFacts
<1>4. PICK w : w = Written(s, to, used)
  OBVIOUS
<1>5. PICK n : n = Put(d, s, to, used)
  OBVIOUS
<1>6. /\ n.files = (d.files \ At(d, s, to)) \cup {w} /\ n.blobs = d.blobs
      /\ w.session = s /\ w.nonce = to.nonce /\ w.intent = to.intent
  <2>1. IsFiniteSet(d.files)
    BY <1>3
  <2>2. /\ Put(d, s, to, used).files = (d.files \ At(d, s, to)) \cup {Written(s, to, used)}
        /\ Put(d, s, to, used).blobs = d.blobs /\ Written(s, to, used).session = s
        /\ Written(s, to, used).nonce = to.nonce /\ Written(s, to, used).intent = to.intent
    BY <2>1, PutFacts
  <2> QED
    BY <1>4, <1>5, <2>2
<1>7. \A f : f \in n.files <=> f = w \/ (f \in ns.files /\ f \notin At(ns, s, from) /\ f \notin At(d, s, to))
  BY <1>3, <1>6
<1>8. \A f \in d.files : f \in At(d, s, to) <=> f.session = s /\ f.nonce = to.nonce /\ f.intent = to.intent
  BY DEF At
<1>9. \A f \in At(ns, s, from) : f.session = s
  BY DEF At
<1>9a. \A f \in At(d, s, to) : f.session = s
  BY DEF At
<1>10. n.blobs = ns.blobs /\ w \in Of(n, s)
  BY <1>3, <1>6 DEF Of
<1>11. \A f \in Of(n, s) : f = w \/ (f \in Of(ns, s) /\ f \notin At(ns, s, from))
  BY <1>7 DEF Of
<1>12. \A f \in Of(ns, s) : f \in Of(n, s) \/ f \in At(ns, s, from)
                          \/ (f.intent = w.intent /\ f.nonce = w.nonce)
  BY <1>3, <1>6, <1>7, <1>8 DEF Of
<1>13. \A r : r # s => Of(n, r) = Of(ns, r)
  BY <1>6, <1>7, <1>9, <1>9a DEF Of
<1> QED
  BY <1>1, <1>2, <1>4, <1>5, <1>10, <1>11, <1>12, <1>13 DEF MovedTo

\* When a reference of s may move.
MoveOK(ns, s, from, to) ==
  /\ from.intent \in Intent \cup {"Active"} /\ to.intent \in Intent \cup {"Active"}
  /\ to.intent = "Active" => to.nonce = 0 /\ from.intent = "Restore" /\ ~Exists(ns, s, Reference)
  /\ to.intent = "Superseded" => from.intent = "Restore" /\ Exists(ns, s, Reference)
  /\ to.intent = "Restore" => from.intent = "Active"
  /\ to.intent # "Active" /\ from.intent = "Active" => Aside(ns, s) = {}

LEMMA MoveKeepsFiles ==
  ASSUME NEW ns \in Namespace, NEW ns2, NEW s, NEW from, NEW to, NEW w, FilesOK(ns, s),
         Exists(ns, s, from), w.session = s, w.nonce = to.nonce, w.intent = to.intent,
         w.last_used = LastUsed(ns, s, from), MovedTo(ns, ns2, s, from, w), MoveOK(ns, s, from, to)
  PROVE  FilesOK(ns2, s)
<1>1. PICK g \in At(ns, s, from) : w.last_used = g.last_used /\ g \in Of(ns, s) /\ g.intent = from.intent
  BY AtFacts DEF Exists
<1>2. At(ns, s, from) = {g} /\ w \in Of(ns2, s) /\ ns2.blobs = ns.blobs
  BY <1>1, AtFacts DEF MovedTo
<1>3. \A f \in Of(ns2, s) : f = w \/ (f \in Of(ns, s) /\ f # g)
  BY <1>2 DEF MovedTo
<1>4. \A f \in Of(ns, s) : f.last_used \in Int
  BY StoreAssumption DEF Namespace, StoredFile, Of
<1>5. \A f, h \in Of(ns, s) : (f.intent = "Active" <=> h.intent = "Active") => f = h
  BY DEF FilesOK
<1>6. \A f \in Of(ns2, s) : f = w \/ (f \in Of(ns, s) /\ (f.intent = "Active" <=> from.intent # "Active"))
  BY <1>1, <1>3, <1>5
<1>7. from.intent = "Active" /\ to.intent # "Active" => \A f \in Of(ns2, s) : f = w
  BY <1>6 DEF MoveOK, Aside
<1>8. from.intent # "Active" /\ to.intent = "Active" => \A f \in Of(ns2, s) : f = w
  <2>1. ~Exists(ns, s, Reference) => \A f \in Of(ns, s) : f.intent # "Active"
    BY ActiveFacts
  <2> QED
    BY <1>6, <2>1 DEF MoveOK
<1>9. ~(from.intent = "Active" /\ to.intent = "Active")
  BY DEF MoveOK
<1>10. \A f \in Of(ns2, s) : f.last_used # 0 /\ <<s, f.last_used>> \in ns2.blobs
  BY <1>1, <1>2, <1>3 DEF FilesOK
<1>11. \A f, h \in Of(ns2, s) : (f.intent = "Active" <=> h.intent = "Active") => f = h
  BY <1>5, <1>6, <1>7, <1>8, <1>9
<1>12. \A f \in Of(ns2, s) : f.intent = "Active" => f.nonce = 0
  BY <1>3 DEF FilesOK, MoveOK
<1>13. \A f \in Of(ns2, s) : f.intent = "Superseded" => Exists(ns2, s, Reference)
  <2> SUFFICES ASSUME NEW f \in Of(ns2, s), f.intent = "Superseded"
               PROVE  Exists(ns2, s, Reference)
    OBVIOUS
  <2>1. f = w
    BY <1>6, <1>7, <1>8, <1>9
  <2>2. from.intent = "Restore" /\ Exists(ns, s, Reference)
    BY <2>1 DEF MoveOK
  <2>3. PICK h \in At(ns, s, Reference) : h \in Of(ns, s) /\ h.intent = "Active" /\ h.nonce = 0
    BY <2>2, AtFacts, PathFacts DEF Exists
  <2>4. h \in Of(ns2, s)
    BY <1>1, <1>2, <2>1, <2>2, <2>3 DEF MovedTo
  <2> QED
    BY <2>3, <2>4, PathFacts DEF Exists, At, Of
<1>14. \A f, h \in Of(ns2, s) : f.intent = "Active" /\ h.intent \in {"Restore", "Superseded"} =>
                               h.last_used <= f.last_used
  <2> SUFFICES ASSUME NEW f \in Of(ns2, s), NEW h \in Of(ns2, s), f.intent = "Active",
                      h.intent \in {"Restore", "Superseded"}
               PROVE  h.last_used <= f.last_used
    OBVIOUS
  <2>1. from.intent \in {"Restore", "Superseded", "Discard"} /\ to.intent # "Active" /\ h = w /\ f \in Of(ns, s)
    BY <1>6, <1>7, <1>8, <1>9 DEF MoveOK, Intent
  <2>2. to.intent = "Superseded" => from.intent = "Restore"
    BY DEF MoveOK
  <2>3. to.intent # "Restore"
    BY <2>1 DEF MoveOK
  <2> QED
    BY <1>1, <2>1, <2>2, <2>3 DEF FilesOK
<1> QED
  BY <1>10, <1>11, <1>12, <1>13, <1>14 DEF FilesOK

LEMMA RemoveKeepsFiles ==
  ASSUME NEW ns \in Namespace, IsFiniteSet(ns.files), NEW s, NEW path,
         path.intent = "Active" => \A f \in Of(ns, s) : f.intent # "Superseded"
  PROVE  /\ FilesOK(ns, s) => FilesOK(Drop(ns, s, path), s)
         /\ \A f : f \in Of(Drop(ns, s, path), s) <=> f \in Of(ns, s) /\ f \notin At(ns, s, path)
         /\ \A r : r # s => Of(Drop(ns, s, path), r) = Of(ns, r)
<1>1. PICK n : n = Drop(ns, s, path)
  OBVIOUS
<1>2. n.files = ns.files \ At(ns, s, path) /\ n.blobs = ns.blobs
  BY <1>1, DropFacts
<1>3. \A f \in ns.files : f \in At(ns, s, path) <=> f.session = s /\ f.nonce = path.nonce /\ f.intent = path.intent
  BY DEF At
<1>4. \A f : f \in Of(n, s) <=> f \in Of(ns, s) /\ f \notin At(ns, s, path)
  BY <1>2 DEF Of
<1>5. \A r : r # s => Of(n, r) = Of(ns, r)
  BY <1>2, <1>3 DEF Of
<1>6. ASSUME FilesOK(ns, s)
      PROVE  FilesOK(n, s)
  <2>1. \A f \in Of(n, s) : f.intent = "Superseded" => Exists(n, s, Reference)
    <3> SUFFICES ASSUME NEW f \in Of(n, s), f.intent = "Superseded"
                 PROVE  Exists(n, s, Reference)
      OBVIOUS
    <3>1. path.intent # "Active" /\ Exists(ns, s, Reference)
      BY <1>4, <1>6 DEF FilesOK
    <3>2. PICK h \in At(ns, s, Reference) : h \in Of(ns, s) /\ h.intent = "Active" /\ h.nonce = 0
      BY <1>6, <3>1, AtFacts, PathFacts DEF Exists
    <3>3. h \in Of(n, s)
      BY <1>3, <1>4, <3>1, <3>2 DEF Of
    <3> QED
      BY <3>2, <3>3, PathFacts DEF Exists, At, Of
  <2> QED
    BY <1>2, <1>4, <1>6, <2>1 DEF FilesOK
<1> QED
  BY <1>1, <1>4, <1>5, <1>6

LEMMA PublishKeepsFiles ==
  ASSUME NEW ns \in Namespace, IsFiniteSet(ns.files), NEW s \in Sessions, NEW used \in 0 .. MaxClock,
         used # 0, <<s, used>> \in ns.blobs, \A f \in Of(ns, s) : f.last_used <= used, FilesOK(ns, s)
  PROVE  /\ FilesOK(Put(ns, s, Reference, used), s)
         /\ LastUsed(Put(ns, s, Reference, used), s, Reference) = used
         /\ Put(ns, s, Reference, used).blobs = ns.blobs
         /\ \A f \in Of(ns, s) : f.intent # "Active" => f \in Of(Put(ns, s, Reference, used), s)
         /\ \A f \in Of(Put(ns, s, Reference, used), s) : f \in Of(ns, s) \/ (f.intent = "Active" /\ f.last_used = used)
         /\ \A r : r # s => Of(Put(ns, s, Reference, used), r) = Of(ns, r)
<1>1. PICK n, w : n = Put(ns, s, Reference, used) /\ w = Written(s, Reference, used)
  OBVIOUS
<1>2. /\ n.files = (ns.files \ At(ns, s, Reference)) \cup {w} /\ n.blobs = ns.blobs
      /\ w.session = s /\ w.nonce = 0 /\ w.intent = "Active" /\ w.last_used = used
  BY <1>1, PutFacts, PathFacts
<1>3. \A f \in ns.files : f \in At(ns, s, Reference) <=> f.session = s /\ f.nonce = 0 /\ f.intent = "Active"
  BY PathFacts DEF At
<1>4. \A f : f \in Of(n, s) <=> f = w \/ (f \in Of(ns, s) /\ f.intent # "Active")
  <2>1. \A f \in Of(ns, s) : f \in At(ns, s, Reference) <=> f.intent = "Active"
    BY <1>3 DEF FilesOK, Of
  <2> QED
    BY <1>2, <2>1 DEF Of
<1>5. \A r : r # s => Of(n, r) = Of(ns, r)
  BY <1>2, <1>3 DEF Of
<1>6. FilesOK(n, s)
  <2>1. Exists(n, s, Reference)
    BY <1>2, PathFacts DEF Exists, At
  <2>2. \A f \in Of(n, s) : f.last_used # 0 /\ <<s, f.last_used>> \in n.blobs
    BY <1>2, <1>4 DEF FilesOK
  <2>3. \A f, g \in Of(n, s) : (f.intent = "Active" <=> g.intent = "Active") => f = g
    BY <1>2, <1>4 DEF FilesOK
  <2>4. \A f, g \in Of(n, s) : f.intent = "Active" /\ g.intent \in {"Restore", "Superseded"} =>
                               g.last_used <= f.last_used
    BY <1>2, <1>4
  <2> QED
    BY <1>2, <1>4, <2>1, <2>2, <2>3, <2>4 DEF FilesOK
<1>7. LastUsed(n, s, Reference) = used
  BY <1>2, <1>4, <1>6, ActiveFacts
<1> QED
  BY <1>1, <1>2, <1>4, <1>5, <1>6, <1>7

-----------------------------------------------------------------------------
(* Every operation on the files keeps them so *)

\* What the next operation of a script may do to the files of s.
OperationOK(ns, s, step) ==
  /\ step.op = "move" => MoveOK(ns, s, step.path, step.to)
  /\ step.op = "remove" /\ step.path.intent = "Active" => \A f \in Of(ns, s) : f.intent # "Superseded"
  /\ step.op = "publish" => /\ step.last_used # 0 /\ <<s, step.last_used>> \in ns.blobs
                            /\ \A f \in Of(ns, s) : f.last_used <= step.last_used

FileInv == \A ns \in durable : \A s \in Sessions : FilesOK(ns, s)

LEMMA OperationFiles ==
  ASSUME SessionInv, NEW step \in Step, CanDo(step), step.op = "move" => step.to.intent # "Blob",
         FilesOK(disk, proc.v), OperationOK(disk, proc.v, step)
  PROVE  /\ FilesOK(Effect(step), proc.v)
         /\ \A r : r # proc.v => Of(Effect(step), r) = Of(disk, r)
         /\ disk.blobs \subseteq Effect(step).blobs
         /\ step.op = "move" => /\ Exists(disk, proc.v, step.path)
                                /\ MovedTo(disk, Effect(step), proc.v, step.path,
                                           Written(proc.v, step.to, LastUsed(disk, proc.v, step.path)))
<1>1. /\ disk \in Namespace /\ IsFiniteSet(disk.files) /\ proc.v \in Sessions
      /\ step.path \in Paths /\ step.to \in Paths /\ step.last_used \in 0 .. MaxClock
      /\ step.op \in {"move", "remove", "sync", "link", "publish"}
  BY Now, DiskFacts DEF Step, CanDo
<1>2. PICK s \in Sessions : s = proc.v
  BY <1>1
<1>3. PICK n : n = Effect(step)
  OBVIOUS
<1>4. CASE step.op \in {"sync", "link"}
  <2>1. n.files = disk.files /\ disk.blobs \subseteq n.blobs
    BY <1>3, <1>4, EffectFacts DEF CanDo
  <2>2. \A r : Of(n, r) = Of(disk, r)
    BY <2>1 DEF Of
  <2> QED
    BY <1>2, <1>3, <1>4, <2>1, <2>2, SameFiles
<1>5. CASE step.op = "remove"
  <2>1. n = Drop(disk, s, step.path) /\ n.blobs = disk.blobs
    BY <1>1, <1>2, <1>3, <1>5, EffectFacts, DropFacts
  <2>2. step.path.intent = "Active" => \A f \in Of(disk, s) : f.intent # "Superseded"
    BY <1>2, <1>5 DEF OperationOK
  <2>3. FilesOK(n, s) /\ \A r : r # s => Of(n, r) = Of(disk, r)
    BY <1>1, <1>2, <2>1, <2>2, RemoveKeepsFiles
  <2> QED
    BY <1>2, <1>3, <1>5, <2>1, <2>3
<1>6. CASE step.op = "publish"
  <2>1. n = Put(disk, s, Reference, step.last_used)
    BY <1>2, <1>3, <1>6, EffectFacts
  <2>2. /\ step.last_used # 0 /\ <<s, step.last_used>> \in disk.blobs
        /\ \A f \in Of(disk, s) : f.last_used <= step.last_used
    BY <1>2, <1>6 DEF OperationOK
  <2>3. FilesOK(n, s) /\ n.blobs = disk.blobs /\ \A r : r # s => Of(n, r) = Of(disk, r)
    BY <1>1, <1>2, <2>1, <2>2, PublishKeepsFiles
  <2> QED
    BY <1>2, <1>3, <1>6, <2>3
<1>7. CASE step.op = "move"
  <2>1. Exists(disk, s, step.path) /\ MoveOK(disk, s, step.path, step.to)
    BY <1>2, <1>7 DEF CanDo, OperationOK
  <2>2. PICK w : w = Written(s, step.to, LastUsed(disk, s, step.path))
    OBVIOUS
  <2>3. n = Put(Drop(disk, s, step.path), s, step.to, LastUsed(disk, s, step.path))
    BY <1>2, <1>3, <1>7, EffectFacts
  <2>4. MovedTo(disk, n, s, step.path, w)
    BY <1>1, <1>7, <2>2, <2>3, MoveFiles
  <2>5. w.session = s /\ w.nonce = step.to.nonce /\ w.intent = step.to.intent
        /\ w.last_used = LastUsed(disk, s, step.path)
    BY <2>2 DEF Written
  <2>6. FilesOK(n, s)
    BY <1>1, <1>2, <2>1, <2>4, <2>5, MoveKeepsFiles
  <2>7. disk.blobs \subseteq n.blobs /\ \A r : r # s => Of(n, r) = Of(disk, r)
    BY <2>4 DEF MovedTo
  <2> QED
    BY <1>2, <1>3, <2>1, <2>2, <2>4, <2>6, <2>7
<1> QED
  BY <1>1, <1>4, <1>5, <1>6, <1>7

\* What a power loss may leave is what it could leave before, and the files as they are.
LEMMA OperationFileInv ==
  ASSUME SessionInv, FileInv, IoSucceeds, NEW step \in Step, step = Head(proc.io),
         step.op = "move" => step.to.intent # "Blob", OperationOK(disk, proc.v, step)
  PROVE  FileInv'
<1>1. /\ CanDo(step) /\ disk' = Effect(step)
      /\ durable' = IF step.op = "sync" THEN SyncDirectory(step.path) ELSE durable \cup {disk'}
  BY DEF IoSucceeds
<1>2. disk \in durable /\ proc.v \in Sessions
  BY Now DEF TypeInv
<1>3. PICK v \in Sessions : v = proc.v
  BY <1>2
<1>4. PICK n : n = Effect(step)
  OBVIOUS
<1>5. FilesOK(disk, v) /\ \A s \in Sessions : FilesOK(disk, s)
  BY <1>2, <1>3 DEF FileInv
<1>6. FilesOK(n, v) /\ disk.blobs \subseteq n.blobs /\ \A r : r # v => Of(n, r) = Of(disk, r)
  BY <1>1, <1>3, <1>4, <1>5, OperationFiles
<1>7. \A s \in Sessions : FilesOK(n, s)
  <2> TAKE s \in Sessions
  <2>1. CASE s = v
    BY <1>6, <2>1
  <2>2. CASE s # v
    BY <1>5, <1>6, <2>2, SameFiles
  <2> QED
    BY <2>1, <2>2
<1>8. durable' \subseteq durable \cup {n}
  BY <1>1, <1>4 DEF SyncDirectory
<1> QED
  BY <1>7, <1>8 DEF FileInv

-----------------------------------------------------------------------------
(* What the scripts do to the files *)

\* The active reference is gone before step i, or an earlier step removes it.
RefGone(ns, s, io, i) ==
  /\ ~Exists(ns, s, Reference) \/ \E j \in 1 .. i - 1 : io[j].op = "remove" /\ io[j].path = Reference
  /\ \A j \in 1 .. i - 1 : io[j].op = "move" => io[j].to.intent # "Active"

\* What step i of a script other than a persist may do to the files of s.
SoundStep(ns, s, io, i) ==
  /\ io[i].op \notin {"link", "publish"}
  /\ io[i].op = "move" /\ io[i].to.intent = "Superseded" =>
       i = 1 /\ io[i].path.intent = "Restore" /\ Exists(ns, s, Reference)
  /\ io[i].op = "move" /\ io[i].to.intent = "Restore" => io[i].path = Reference
  /\ io[i].op = "move" /\ io[i].to.intent = "Active" =>
       i = 1 /\ io[i].path.intent = "Restore" /\ ~Exists(ns, s, Reference)
  /\ io[i].op = "remove" /\ io[i].path.intent = "Active" => io[i].path = Reference
  /\ io[i].op = "remove" /\ io[i].path.intent = "Restore" => i = 1 /\ Exists(ns, s, Reference)
  /\ io[i].op = "remove" /\ io[i].path.intent = "Discard" => RefGone(ns, s, io, i)

Sound(ns, s, io) == \A i \in 1 .. Len(io) : SoundStep(ns, s, io, i)

\* A step that is sound wherever it stands.
Loose(step) ==
  \/ step.op \in {"sync", "refuse"}
  \/ step.op = "remove" /\ (step.path = Reference \/ step.path.intent = "Superseded")
  \/ step.op = "move" /\ (step.to.intent = "Discard" \/ (step.to.intent = "Restore" /\ step.path = Reference))

LooseScript(io) == io \in Seq(Step) /\ \A i \in 1 .. Len(io) : Loose(io[i])

LEMMA SoundTail ==
  ASSUME NEW ns, NEW ns2, NEW s, NEW io \in Seq(Step), io # <<>>, Sound(ns, s, io),
         io[1].op = "remove" /\ io[1].path = Reference => ~Exists(ns2, s, Reference),
         ~Exists(ns, s, Reference) /\ ~(io[1].op = "move" /\ io[1].to.intent = "Active") => ~Exists(ns2, s, Reference)
  PROVE  Sound(ns2, s, Tail(io))
<1>1. /\ Len(io) \in Nat /\ Len(io) >= 1
      /\ \A i \in 1 .. Len(Tail(io)) : i + 1 \in 1 .. Len(io) /\ Tail(io)[i] = io[i + 1]
      /\ Len(Tail(io)) \in Nat
  BY HeadFacts
<1>2. PICK b : b = Tail(io)
  OBVIOUS
<1> SUFFICES ASSUME NEW i \in 1 .. Len(b)
             PROVE  SoundStep(ns2, s, b, i)
  BY <1>2 DEF Sound
<1>3. SoundStep(ns, s, io, i + 1) /\ b[i] = io[i + 1] /\ i \in Nat /\ i >= 1 /\ i + 1 # 1 /\ (i + 1) - 1 = i
  BY <1>1, <1>2 DEF Sound
<1>4. RefGone(ns, s, io, i + 1) => RefGone(ns2, s, b, i)
  <2> SUFFICES ASSUME RefGone(ns, s, io, i + 1)
               PROVE  RefGone(ns2, s, b, i)
    OBVIOUS
  <2>1. \A j \in 1 .. i : io[j].op = "move" => io[j].to.intent # "Active"
    BY <1>3 DEF RefGone
  <2>2. \A j \in 1 .. i - 1 : j + 1 \in 1 .. i /\ b[j] = io[j + 1]
    <3> TAKE j \in 1 .. i - 1
    <3>1. j + 1 \in 1 .. i /\ j \in 1 .. Len(b)
      BY <1>1, <1>2, <1>3
    <3> QED
      BY <1>1, <1>2, <3>1
  <2>3. \A j \in 1 .. i - 1 : b[j].op = "move" => b[j].to.intent # "Active"
    BY <2>1, <2>2
  <2>4. ~Exists(ns2, s, Reference) \/ \E j \in 1 .. i - 1 : b[j].op = "remove" /\ b[j].path = Reference
    <3>1. CASE ~Exists(ns, s, Reference)
      BY <1>3, <2>1, <3>1
    <3>2. CASE \E j \in 1 .. i : io[j].op = "remove" /\ io[j].path = Reference
      <4>1. PICK j \in 1 .. i : io[j].op = "remove" /\ io[j].path = Reference
        BY <3>2
      <4>2. CASE j = 1
        BY <4>1, <4>2
      <4>3. CASE j # 1
        <5>1. j - 1 \in 1 .. i - 1 /\ (j - 1) + 1 = j
          BY <1>3, <4>1, <4>3
        <5>2. b[j - 1] = io[j]
          BY <2>2, <5>1
        <5> QED
          BY <4>1, <5>1, <5>2
      <4> QED
        BY <4>2, <4>3
    <3> QED
      BY <1>3, <3>1, <3>2 DEF RefGone
  <2> QED
    BY <2>3, <2>4 DEF RefGone
<1> QED
  BY <1>3, <1>4 DEF SoundStep

LEMMA LooseStep ==
  ASSUME NEW ns, NEW s, NEW io, NEW i, Loose(io[i])
  PROVE  SoundStep(ns, s, io, i)
BY PathFacts DEF Loose, SoundStep

LEMMA LooseSound ==
  ASSUME NEW ns, NEW s, NEW io, LooseScript(io)
  PROVE  Sound(ns, s, io)
BY LooseStep DEF LooseScript, Sound

LEMMA LooseJoin ==
  ASSUME NEW a, NEW b, LooseScript(a), LooseScript(b)
  PROVE  LooseScript(a \o b)
<1>1. a \in Seq(Step) /\ b \in Seq(Step)
  BY DEF LooseScript
<1>2. PICK c : c = a \o b
  OBVIOUS
<1>3. /\ c \in Seq(Step) /\ Len(c) = Len(a) + Len(b) /\ Len(a) \in Nat /\ Len(b) \in Nat
      /\ \A i \in 1 .. Len(a) : c[i] = a[i]
      /\ \A i \in 1 .. Len(b) : c[Len(a) + i] = b[i]
  BY <1>1, <1>2, JoinFacts
<1>4. ASSUME NEW i \in 1 .. Len(c)
      PROVE  Loose(c[i])
  <2>1. CASE i \in 1 .. Len(a)
    BY <1>3, <2>1 DEF LooseScript
  <2>2. CASE i \notin 1 .. Len(a)
    <3>1. i - Len(a) \in 1 .. Len(b) /\ i = Len(a) + (i - Len(a))
      BY <1>3, <2>2
    <3>2. c[i] = b[i - Len(a)]
      BY <1>3, <3>1
    <3> QED
      BY <3>1, <3>2 DEF LooseScript
  <2> QED
    BY <2>1, <2>2
<1> QED
  BY <1>2, <1>3, <1>4 DEF LooseScript

\* A first step that needs the files as they are, and loose ones after it.
LEMMA FirstSound ==
  ASSUME NEW ns, NEW s, NEW step \in Step, NEW b, LooseScript(b), SoundStep(ns, s, <<step>>, 1)
  PROVE  Sound(ns, s, <<step>> \o b)
<1>1. b \in Seq(Step)
  BY DEF LooseScript
<1>2. PICK c : c = <<step>> \o b
  OBVIOUS
<1>3. /\ c \in Seq(Step) /\ Len(c) = Len(b) + 1 /\ c[1] = step /\ Len(b) \in Nat
      /\ \A i \in 1 .. Len(b) : c[i + 1] = b[i]
  BY <1>1, <1>2, ConsFacts
<1>4. PICK d : d = <<step>> /\ d[1] = step
  OBVIOUS
<1>5. SoundStep(ns, s, c, 1)
  <2>1. SoundStep(ns, s, d, 1)
    BY <1>4
  <2>2. RefGone(ns, s, d, 1) => RefGone(ns, s, c, 1)
    BY DEF RefGone
  <2> QED
    BY <1>3, <1>4, <2>1, <2>2 DEF SoundStep
<1>6. ASSUME NEW i \in 1 .. Len(c), i # 1
      PROVE  SoundStep(ns, s, c, i)
  <2>1. i - 1 \in 1 .. Len(b) /\ (i - 1) + 1 = i
    BY <1>3, <1>6
  <2>2. c[i] = b[i - 1]
    BY <1>3, <2>1
  <2>3. Loose(c[i])
    BY <2>1, <2>2 DEF LooseScript
  <2> QED
    BY <2>3, LooseStep
<1> QED
  BY <1>2, <1>5, <1>6 DEF Sound

LEMMA SyncLoose ==
  ASSUME NEW l \in Lease
  PROVE  /\ LooseScript(SyncPendingNamespaces(l))
         /\ \A i \in 1 .. Len(SyncPendingNamespaces(l)) : SyncPendingNamespaces(l)[i].op = "sync"
<1>1. l.nonce \in Nat
  BY DEF Lease
<1>2. Quarantine(l.nonce, "Restore") \in Paths /\ Reference \in Paths
  BY <1>1, PathFacts DEF Intent
<1>3. /\ Sync(Reference, l).op = "sync"
      /\ Sync(Quarantine(l.nonce, "Restore"), Synced(l)).op = "sync"
  BY <1>2, StepFacts, SyncedFacts
<1>4. PICK a : a = SyncPendingNamespaces(l)
  OBVIOUS
<1>5. a \in Seq(Step) /\ \A i \in 1 .. Len(a) : a[i].op = "sync"
  BY <1>3, <1>4, SyncPendingFacts
<1> QED
  BY <1>4, <1>5 DEF LooseScript, Loose

LEMMA RemoveSupersededLoose ==
  ASSUME NEW l \in Lease
  PROVE  LooseScript(RemoveSuperseded(l))
<1>1. PICK path \in Paths : path = Quarantine(l.nonce, "Superseded") /\ path.intent = "Superseded"
  BY PathFacts DEF Lease, Intent
<1>2. PICK r \in Step, q \in Step : r = Remove(path, Synced(l)) /\ q = Sync(path, RemovedLease(l))
  BY StepFacts, SyncedFacts, RemovedFacts
<1>3. r.op = "remove" /\ r.path = path /\ q.op = "sync"
  BY <1>2, StepFacts, SyncedFacts, RemovedFacts
<1>4. LooseScript(<<r, q>>)
  BY <1>1, <1>3, TwoFacts DEF LooseScript, Loose
<1>5. RemoveSuperseded(l) = SyncPendingNamespaces(l) \o <<r, q>>
  BY <1>1, <1>2 DEF RemoveSuperseded
<1> QED
  BY <1>4, <1>5, SyncLoose, LooseJoin

LEMMA RefuseSound ==
  ASSUME NEW ns, NEW s
  PROVE  Sound(ns, s, Refuse) /\ Sound(ns, s, <<>>)
<1>1. LooseScript(Refuse) /\ LooseScript(<<>>)
  BY RefuseFacts, EmptyFacts DEF LooseScript, Loose
<1> QED
  BY <1>1, LooseSound

LEMMA RetireSound ==
  ASSUME NEW ns, NEW s, NEW l \in Lease, l.state = "Restore" => Exists(ns, s, Reference)
  PROVE  Sound(ns, s, Retire(l))
<1>1. CASE DiscardPending(l)
  BY <1>1, RefuseSound DEF Retire, DiscardPending
<1>2. CASE ~DiscardPending(l) /\ l.state = "Restore"
  <2>1. PICK p \in Paths, q \in Paths : /\ p = Quarantine(l.nonce, "Restore") /\ p.intent = "Restore"
                                        /\ q = Quarantine(l.nonce, "Superseded") /\ q.intent = "Superseded"
    BY PathFacts DEF Lease, Intent
  <2>2. PICK m \in Lease : m = Moved(l, "Superseded")
    BY MovedFacts DEF LeaseState
  <2>3. PICK step \in Step : step = Move(p, q, m) /\ step.op = "move" /\ step.path = p /\ step.to = q
    BY StepFacts
  <2>4. SoundStep(ns, s, <<step>>, 1)
    BY <1>2, <2>1, <2>3, OneFacts DEF SoundStep
  <2>5. Retire(l) = <<step>> \o RemoveSuperseded(m)
    BY <1>2, <2>1, <2>2, <2>3 DEF Retire, DiscardPending
  <2>6. LooseScript(RemoveSuperseded(m))
    BY RemoveSupersededLoose
  <2> QED
    BY <2>4, <2>5, <2>6, FirstSound
<1>3. CASE ~DiscardPending(l) /\ l.state = "Superseded"
  BY <1>3, RemoveSupersededLoose, LooseSound DEF Retire, DiscardPending
<1>4. CASE ~DiscardPending(l) /\ l.state = "Active"
  BY <1>4, SyncLoose, LooseSound DEF Retire, DiscardPending
<1>5. CASE ~DiscardPending(l) /\ l.state \in {"Removed", "None"}
  BY <1>5, RefuseSound DEF Retire, DiscardPending
<1> QED
  BY <1>1, <1>2, <1>3, <1>4, <1>5 DEF Lease, LeaseState, DiscardPending

LEMMA RestoreSound ==
  ASSUME NEW s, NEW l \in Lease
  PROVE  Sound(disk, s, Restore(s, l))
<1>1. CASE l.discard \/ ActiveConflicts(s, l) \/ l.state \in {"Discard", "Removed"}
  BY <1>1, RefuseSound DEF Restore
<1>2. CASE ~l.discard /\ ~ActiveConflicts(s, l) /\ l.state = "Restore" /\ ~ActiveSupersedes(s, l)
  <2>1. PICK p \in Paths : p = Quarantine(l.nonce, "Restore") /\ p.intent = "Restore"
    BY PathFacts DEF Lease, Intent
  <2>2. PICK m \in Lease : m = Moved(l, "Active")
    BY MovedFacts DEF LeaseState
  <2>3. PICK step \in Step : step = Move(p, Reference, m) /\ step.op = "move" /\ step.path = p /\ step.to = Reference
    BY StepFacts, PathFacts
  <2>4. SoundStep(disk, s, <<step>>, 1)
    BY <1>2, <2>1, <2>3, OneFacts, PathFacts DEF SoundStep, ActiveSupersedes
  <2>5. Restore(s, l) = <<step>> \o SyncPendingNamespaces(m)
    BY <1>2, <2>1, <2>2, <2>3 DEF Restore
  <2> QED
    BY <2>4, <2>5, SyncLoose, FirstSound
<1>3. CASE /\ ~l.discard /\ ~ActiveConflicts(s, l)
           /\ (l.state = "Restore" /\ ActiveSupersedes(s, l)) \/ l.state = "Superseded"
  <2>1. l.state = "Restore" => Exists(disk, s, Reference)
    BY <1>3 DEF ActiveSupersedes
  <2> QED
    BY <1>3, <2>1, RetireSound DEF Restore
<1>4. CASE ~l.discard /\ ~ActiveConflicts(s, l) /\ l.state = "Active"
  BY <1>4, SyncLoose, LooseSound DEF Restore
<1>5. CASE ~l.discard /\ ~ActiveConflicts(s, l) /\ l.state = "None"
  BY <1>5, RefuseSound DEF Restore
<1> QED
  BY <1>1, <1>2, <1>3, <1>4, <1>5 DEF Lease, LeaseState

LEMMA RequarantineSound ==
  ASSUME NEW ns, NEW s, NEW l \in Lease
  PROVE  Sound(ns, s, Requarantine(l))
<1>1. CASE l.state # "Active"
  BY <1>1, RefuseSound DEF Requarantine
<1>2. CASE l.state = "Active"
  <2>1. PICK p \in Paths : p = Quarantine(l.nonce, "Restore") /\ p.intent = "Restore"
    BY PathFacts DEF Lease, Intent
  <2>2. PICK m \in Lease : m = Moved(l, "Restore")
    BY MovedFacts DEF LeaseState
  <2>3. PICK step \in Step : step = Move(Reference, p, m) /\ step.op = "move" /\ step.path = Reference /\ step.to = p
    BY StepFacts, PathFacts
  <2>4. LooseScript(<<step>>)
    BY <2>1, <2>3, OneFacts DEF LooseScript, Loose
  <2>5. Requarantine(l) = (SyncPendingNamespaces(l) \o <<step>>) \o SyncPendingNamespaces(m)
    BY <1>2, <2>1, <2>2, <2>3 DEF Requarantine
  <2> QED
    BY <2>4, <2>5, SyncLoose, LooseJoin, LooseSound
<1> QED
  BY <1>1, <1>2

LEMMA LeaseReferenceSound ==
  ASSUME SessionInv, NEW ns, NEW s \in Sessions
  PROVE  Sound(ns, s, LeaseReference(s))
<1>1. NewNonce(s) \in Nat
  BY NonceFacts DEF SessionInv, TypeInv
<1>2. PICK l : l = [state |-> "Restore", nonce |-> NewNonce(s), discard |-> FALSE, pending |-> TRUE, slot |-> TRUE]
  OBVIOUS
<1>3. l \in Lease
  BY <1>1, <1>2 DEF Lease, LeaseState
<1>4. PICK p \in Paths : p = Quarantine(l.nonce, "Restore") /\ p.intent = "Restore"
  BY <1>3, PathFacts DEF Lease, Intent
<1>5. PICK step \in Step : step = Move(Reference, p, l) /\ step.op = "move" /\ step.path = Reference /\ step.to = p
  BY <1>3, StepFacts, PathFacts
<1>6. LooseScript(<<step>>)
  BY <1>4, <1>5, OneFacts DEF LooseScript, Loose
<1>7. LeaseReference(s) = <<step>> \o SyncPendingNamespaces(l)
  BY <1>2, <1>4, <1>5 DEF LeaseReference
<1> QED
  BY <1>3, <1>6, <1>7, SyncLoose, LooseJoin, LooseSound

\* A discard removes the active reference before its marker.
LEMMA MarkerSound ==
  ASSUME NEW ns, NEW s, NEW a, LooseScript(a), \A i \in 1 .. Len(a) : a[i].op = "move" => a[i].to.intent # "Active",
         NEW b \in Seq(Step), Len(b) \in {4, 5}, b[1].op = "remove", b[1].path = Reference,
         \A i \in 2 .. Len(b) : b[i].op = "sync" \/ (b[i].op = "remove" /\ b[i].path.intent = "Discard")
  PROVE  Sound(ns, s, a \o b)
<1>1. a \in Seq(Step)
  BY DEF LooseScript
<1>2. PICK c : c = a \o b
  OBVIOUS
<1>3. /\ c \in Seq(Step) /\ Len(c) = Len(a) + Len(b) /\ Len(a) \in Nat /\ Len(b) \in Nat
      /\ \A i \in 1 .. Len(a) : c[i] = a[i]
      /\ \A i \in 1 .. Len(b) : c[Len(a) + i] = b[i]
  BY <1>1, <1>2, JoinFacts
<1>4. ASSUME NEW i \in 1 .. Len(c), i \notin 1 .. Len(a)
      PROVE  i - Len(a) \in 1 .. Len(b) /\ c[i] = b[i - Len(a)] /\ (i # Len(a) + 1 => i - Len(a) \in 2 .. Len(b))
  <2>1. i - Len(a) \in 1 .. Len(b) /\ i = Len(a) + (i - Len(a)) /\ (i # Len(a) + 1 => i - Len(a) \in 2 .. Len(b))
    BY <1>3, <1>4
  <2> QED
    BY <1>3, <2>1
<1>5. c[Len(a) + 1] = b[1]
  BY <1>3
<1>6. \A i \in 1 .. Len(c) : c[i].op = "move" => c[i].to.intent # "Active"
  <2> TAKE i \in 1 .. Len(c)
  <2>1. CASE i \in 1 .. Len(a)
    BY <1>3, <2>1
  <2>2. CASE i = Len(a) + 1
    BY <1>5, <2>2
  <2>3. CASE i \notin 1 .. Len(a) /\ i # Len(a) + 1
    BY <1>4, <2>3
  <2> QED
    BY <2>1, <2>2, <2>3
<1>7. ASSUME NEW i \in 1 .. Len(c)
      PROVE  SoundStep(ns, s, c, i)
  <2>1. CASE i \in 1 .. Len(a)
    <3>1. Loose(c[i])
      BY <1>3, <2>1 DEF LooseScript
    <3> QED
      BY <3>1, LooseStep
  <2>2. CASE i = Len(a) + 1
    <3>1. Loose(c[i])
      BY <1>5, <2>2 DEF Loose
    <3> QED
      BY <3>1, LooseStep
  <2>3. CASE i \notin 1 .. Len(a) /\ i # Len(a) + 1
    <3>1. c[i].op = "sync" \/ (c[i].op = "remove" /\ c[i].path.intent = "Discard")
      BY <1>4, <2>3
    <3>2. Len(a) + 1 \in 1 .. i - 1 /\ 1 .. i - 1 \subseteq 1 .. Len(c)
      BY <1>3, <2>3
    <3>3. RefGone(ns, s, c, i)
      BY <1>5, <1>6, <3>2 DEF RefGone
    <3> QED
      BY <3>1, <3>3 DEF SoundStep
  <2> QED
    BY <2>1, <2>2, <2>3
<1> QED
  BY <1>2, <1>7 DEF Sound

\* A discard: the marker, the syncs, and the rest.
LEMMA DiscardParts ==
  ASSUME NEW l \in Lease, l.state \in Intent \cup {"Active"}, l.discard
  PROVE  /\ l.state = "Discard" => Discard(l) = SyncPendingNamespaces(l) \o DiscardTail(l)
         /\ l.state # "Discard" =>
              \E m \in Lease, step \in Step :
                 /\ Discard(l) = (<<step>> \o SyncPendingNamespaces(m)) \o DiscardTail(m)
                 /\ m.state = "Discard" /\ m.pending /\ m.discard /\ m.nonce = l.nonce
                 /\ step.op = "move" /\ step.to.intent = "Discard" /\ step.lease = m
<1>1. ASSUME l.state = "Discard"
      PROVE  Discard(l) = SyncPendingNamespaces(l) \o DiscardTail(l)
  <2>1. Discard(l) = (<<>> \o SyncPendingNamespaces(l)) \o DiscardTail(l)
    BY <1>1 DEF Discard, DiscardTail
  <2>2. <<>> \o SyncPendingNamespaces(l) = SyncPendingNamespaces(l)
    BY SyncPendingFacts, ConcatEmptySeq
  <2> QED
    BY <2>1, <2>2
<1>2. ASSUME l.state # "Discard"
      PROVE  \E m \in Lease, step \in Step :
                 /\ Discard(l) = (<<step>> \o SyncPendingNamespaces(m)) \o DiscardTail(m)
                 /\ m.state = "Discard" /\ m.pending /\ m.discard /\ m.nonce = l.nonce
                 /\ step.op = "move" /\ step.to.intent = "Discard" /\ step.lease = m
  <2>1. PICK m \in Lease : /\ m = Moved(l, "Discard") /\ m.state = "Discard" /\ m.pending /\ m.discard
                           /\ m.nonce = l.nonce
    BY MovedFacts DEF LeaseState
  <2>2. PICK p \in Paths : p = PlaceOf(l) /\ p = DiscardSource(l)
    BY <1>2, PlaceFacts DEF PlaceOf, DiscardSource
  <2>3. PICK q \in Paths : q = Quarantine(l.nonce, "Discard") /\ q.intent = "Discard"
    BY PathFacts DEF Lease, Intent
  <2>4. PICK step \in Step : step = Move(p, q, m) /\ step.op = "move" /\ step.to = q /\ step.lease = m
    BY StepFacts
  <2>5. Discard(l) = (<<step>> \o SyncPendingNamespaces(m)) \o DiscardTail(m)
    BY <1>2, <2>1, <2>2, <2>3, <2>4 DEF Discard, DiscardTail
  <2> QED
    BY <2>1, <2>3, <2>4, <2>5
<1> QED
  BY <1>1, <1>2

LEMMA DiscardSound ==
  ASSUME NEW ns, NEW s, NEW l \in Lease, l.state \in Intent \cup {"Active"}, l.discard
  PROVE  Sound(ns, s, Discard(l))
<1>1. ASSUME NEW m \in Lease, m.state = "Discard"
      PROVE  /\ DiscardTail(m) \in Seq(Step) /\ Len(DiscardTail(m)) \in {4, 5}
             /\ DiscardTail(m)[1].op = "remove" /\ DiscardTail(m)[1].path = Reference
             /\ \A i \in 2 .. Len(DiscardTail(m)) :
                  DiscardTail(m)[i].op = "sync" \/ (DiscardTail(m)[i].op = "remove" /\ DiscardTail(m)[i].path.intent = "Discard")
  <2>1. PICK q \in Paths : q = Quarantine(m.nonce, "Discard") /\ q.intent = "Discard"
    BY PathFacts DEF Lease, Intent
  <2>2. PICK b : b = DiscardTail(m)
    OBVIOUS
  <2>3. /\ b \in Seq(Step) /\ Len(b) = 4 /\ b[1] = Remove(Reference, Synced(m))
        /\ b[2] = Sync(Reference, Synced(m)) /\ b[3] = Remove(q, Synced(m)) /\ b[4] = Sync(q, RemovedLease(m))
    BY <1>1, <2>1, <2>2, DiscardTailFacts
  <2>4. /\ b[1].op = "remove" /\ b[1].path = Reference /\ b[2].op = "sync" /\ b[3].op = "remove"
        /\ b[3].path = q /\ b[4].op = "sync"
    <3>1. PICK k \in Lease, r \in Lease : k = Synced(m) /\ r = RemovedLease(m)
      BY SyncedFacts, RemovedFacts
    <3>2. /\ b[1] = Remove(Reference, k) /\ b[2] = Sync(Reference, k)
          /\ b[3] = Remove(q, k) /\ b[4] = Sync(q, r)
      BY <2>3, <3>1
    <3> QED
      BY <3>2, StepFacts, PathFacts
  <2>5. 2 .. Len(b) = {2, 3, 4}
    BY <2>3
  <2> QED
    BY <2>1, <2>2, <2>3, <2>4, <2>5
<1>2. CASE l.state = "Discard"
  <2>1. Discard(l) = SyncPendingNamespaces(l) \o DiscardTail(l)
    BY <1>2, DiscardParts
  <2>2. PICK a, b : a = SyncPendingNamespaces(l) /\ b = DiscardTail(l)
    OBVIOUS
  <2>3. LooseScript(a) /\ \A i \in 1 .. Len(a) : a[i].op = "move" => a[i].to.intent # "Active"
    BY <2>2, SyncLoose
  <2>4. Sound(ns, s, a \o b)
    BY <1>1, <1>2, <2>2, <2>3, MarkerSound
  <2> QED
    BY <2>1, <2>2, <2>4
<1>3. CASE l.state # "Discard"
  <2>1. PICK m \in Lease, step \in Step :
                 /\ Discard(l) = (<<step>> \o SyncPendingNamespaces(m)) \o DiscardTail(m)
                 /\ m.state = "Discard" /\ step.op = "move" /\ step.to.intent = "Discard"
    BY <1>3, DiscardParts
  <2>2. PICK e, b : e = SyncPendingNamespaces(m) /\ b = DiscardTail(m)
    OBVIOUS
  <2>3. LooseScript(e) /\ \A i \in 1 .. Len(e) : e[i].op = "sync"
    BY <2>2, SyncLoose
  <2>4. LooseScript(<<step>>)
    BY <2>1, OneFacts DEF LooseScript, Loose
  <2>5. PICK a : a = <<step>> \o e
    OBVIOUS
  <2>6. LooseScript(a)
    BY <2>3, <2>4, <2>5, LooseJoin
  <2>7. \A i \in 1 .. Len(a) : a[i].op = "move" => a[i].to.intent # "Active"
    <3>1. e \in Seq(Step)
      BY <2>3 DEF LooseScript
    <3>2. Len(a) = Len(e) + 1 /\ a[1] = step /\ Len(e) \in Nat /\ \A i \in 1 .. Len(e) : a[i + 1] = e[i]
      BY <2>5, <3>1, ConsFacts
    <3> TAKE i \in 1 .. Len(a)
    <3>3. CASE i = 1
      BY <2>1, <3>2, <3>3
    <3>4. CASE i # 1
      <4>1. i - 1 \in 1 .. Len(e) /\ (i - 1) + 1 = i
        BY <3>2, <3>4
      <4>2. a[i] = e[i - 1]
        BY <3>2, <4>1
      <4> QED
        BY <2>3, <4>1, <4>2
    <3> QED
      BY <3>3, <3>4
  <2>8. Sound(ns, s, a \o b)
    BY <1>1, <2>1, <2>2, <2>6, <2>7, MarkerSound
  <2> QED
    BY <2>1, <2>2, <2>5, <2>8
<1> QED
  BY <1>2, <1>3

\* A start removes active references of discarded sessions only.
StartDiscards(ns, s, io) ==
  \A i \in 1 .. Len(io) : io[i].op = "remove" /\ io[i].path.intent = "Active" => i = 1 /\ Marked(ns, s)

\* No other quarantined reference is left to remove.
LEMMA RemoveNone == RemoveFiles({}) = <<>>
<1>1. Cardinality({}) = 0
  BY FS_EmptySet
<1>2. PICK order : order = CHOOSE seq \in [1 .. Cardinality({}) -> {}] : \A i, j \in DOMAIN seq : seq[i] = seq[j] => i = j
  OBVIOUS
<1>3. order \in [1 .. 0 -> {}]
  <2>1. [i \in 1 .. 0 |-> 0] \in [1 .. Cardinality({}) -> {}] /\ DOMAIN [i \in 1 .. 0 |-> 0] = {}
    BY <1>1
  <2>2. \E seq \in [1 .. Cardinality({}) -> {}] : \A i, j \in DOMAIN seq : seq[i] = seq[j] => i = j
    BY <2>1
  <2> QED
    BY <1>1, <1>2, <2>2
<1>4. RemoveFiles({}) = [i \in DOMAIN order |-> Remove(PathOf(order[i]), NoLease)]
  BY <1>2 DEF RemoveFiles
<1>5. DOMAIN order = 1 .. 0
  BY <1>3
<1>6. PICK io : io = RemoveFiles({})
  OBVIOUS
<1>7. io \in [1 .. 0 -> Step]
  <2>1. io = [i \in 1 .. 0 |-> Remove(PathOf(order[i]), NoLease)]
    BY <1>4, <1>5, <1>6
  <2>2. \A i \in 1 .. 0 : Remove(PathOf(order[i]), NoLease) \in Step
    OBVIOUS
  <2> QED
    BY <2>1, <2>2
<1>8. io \in Seq(Step) /\ Len(io) = 0
  BY <1>7
<1> QED
  BY <1>6, <1>8, EmptySeq

LEMMA RecoverSound ==
  ASSUME SessionInv, NEW f \in disk.files, f.intent # "Active", FilesOK(disk, f.session)
  PROVE  Sound(disk, f.session, RecoverReference(f)) /\ StartDiscards(disk, f.session, RecoverReference(f))
<1>1. disk \in Namespace /\ IsFiniteSet(disk.files) /\ f \in StoredFile /\ disk.files \subseteq StoredFile
  BY DiskFacts DEF Namespace
<1>2. f.session \in Sessions /\ f.intent \in Intent /\ f.nonce \in Nat
  BY <1>1 DEF StoredFile
<1>3. PICK p \in Paths : p = PathOf(f) /\ p.intent = f.intent
  BY <1>2, PathFacts DEF PathOf
<1>4. PICK s : s = f.session
  OBVIOUS
<1>5. PICK rp \in Step, sp \in Step, rr \in Step, sr \in Step, mp \in Step :
         /\ rp = Remove(p, NoLease) /\ sp = Sync(p, NoLease) /\ rr = Remove(Reference, NoLease)
         /\ sr = Sync(Reference, NoLease) /\ mp = Move(p, Reference, NoLease)
  BY StepFacts, PathFacts, LeaseFacts
<1>6. /\ rp.op = "remove" /\ rp.path = p /\ sp.op = "sync" /\ rr.op = "remove" /\ rr.path = Reference
      /\ sr.op = "sync" /\ mp.op = "move" /\ mp.path = p /\ mp.to = Reference
  BY <1>5, StepFacts, PathFacts, LeaseFacts
<1>7. CASE f.intent = "Discard"
  <2>1. {g \in disk.files : g.session = f.session /\ g.intent # "Active" /\ g # f} = {}
    BY <1>7 DEF FilesOK, Of
  <2>2. RecoverReference(f) = (<<rr, sr>> \o <<>>) \o <<sp, rp, sp>>
    BY <1>3, <1>5, <1>7, <2>1, RemoveNone DEF RecoverReference, RecoverDiscarded
  <2>3. PICK x \in Seq(Step), y \in Seq(Step) : x = <<rr, sr>> /\ y = <<sp, rp, sp>>
    <3>1. <<rr, sr>> \in Seq(Step)
      BY <1>5
    <3>2. <<sp, rp, sp>> \in Seq(Step)
      BY <1>5
    <3> QED
      BY <3>1, <3>2
  <2>3a. /\ Len(x) = 2 /\ x[1] = rr /\ x[2] = sr
         /\ Len(y) = 3 /\ y[1] = sp /\ y[2] = rp /\ y[3] = sp
    BY <1>5, <2>3
  <2>3b. PICK b : b = x \o y
    OBVIOUS
  <2>4. RecoverReference(f) = b
    BY <2>2, <2>3, <2>3b, ConcatEmptySeq
  <2>5. b \in Seq(Step) /\ Len(b) = 5 /\ b[1] = rr /\ b[2] = sr /\ b[3] = sp /\ b[4] = rp /\ b[5] = sp
    <3>1. /\ b \in Seq(Step) /\ Len(b) = 5
          /\ \A i \in 1 .. 2 : b[i] = x[i]
          /\ \A i \in 1 .. 3 : b[2 + i] = y[i]
      <4>1. Len(x \o y) = Len(x) + Len(y) /\ x \o y \in Seq(Step)
        BY <2>3, JoinFacts
      <4>2. /\ \A i \in 1 .. Len(x) : (x \o y)[i] = x[i]
            /\ \A i \in 1 .. Len(y) : (x \o y)[Len(x) + i] = y[i]
        BY <2>3, JoinFacts
      <4> QED
        BY <2>3a, <2>3b, <4>1, <4>2
    <3>2. b[1] = x[1] /\ b[2] = x[2] /\ b[2 + 1] = y[1] /\ b[2 + 2] = y[2] /\ b[2 + 3] = y[3]
      BY <3>1
    <3> QED
      BY <2>3a, <3>1, <3>2
  <2>6. \A i \in 2 .. Len(b) : b[i].op = "sync" \/ (b[i].op = "remove" /\ b[i].path.intent = "Discard")
    <3>1. 2 .. Len(b) = {2, 3, 4, 5}
      BY <2>5
    <3> QED
      BY <1>3, <1>6, <1>7, <2>5, <3>1
  <2>7. PICK a : a = <<>> /\ a \in Seq(Step) /\ Len(a) = 0
    BY EmptyFacts
  <2>8. LooseScript(a) /\ (\A i \in 1 .. Len(a) : a[i].op = "move" => a[i].to.intent # "Active") /\ a \o b = b
    BY <2>5, <2>7 DEF LooseScript
  <2>9. Sound(disk, s, b)
    <3>1. Sound(disk, s, a \o b)
      BY <1>6, <2>5, <2>6, <2>8, MarkerSound
    <3> QED
      BY <2>8, <3>1
  <2>10. Marked(disk, s)
    BY <1>4, <1>7 DEF Marked
  <2>11. StartDiscards(disk, s, b)
    <3>1. \A i \in 1 .. Len(b) : i = 1 \/ i \in 2 .. Len(b)
      BY <2>5
    <3> QED
      BY <2>6, <2>10, <3>1, PathFacts DEF StartDiscards
  <2> QED
    BY <1>4, <2>4, <2>9, <2>11
<1>8. PICK a, b, d : a = <<rp, sp>> /\ b = <<mp, sr, sp>> /\ d = <<sr, sp>>
  OBVIOUS
<1>9. /\ a[1] = rp /\ a[2] = sp /\ Len(a) = 2 /\ a \in Seq(Step)
      /\ b = <<mp>> \o d /\ b[1] = mp /\ b[2] = sr /\ b[3] = sp /\ Len(b) = 3
      /\ LooseScript(d)
  BY <1>5, <1>6, <1>8, TwoFacts DEF LooseScript, Loose
<1>10. f.intent # "Discard" => StartDiscards(disk, s, a) /\ StartDiscards(disk, s, b) /\ StartDiscards(disk, s, Refuse)
  <2> SUFFICES ASSUME f.intent # "Discard"
               PROVE  StartDiscards(disk, s, a) /\ StartDiscards(disk, s, b) /\ StartDiscards(disk, s, Refuse)
    OBVIOUS
  <2>1. \A i \in 1 .. Len(a) : ~(a[i].op = "remove" /\ a[i].path.intent = "Active")
    BY <1>3, <1>6, <1>9
  <2>2. \A i \in 1 .. Len(b) : b[i].op # "remove"
    BY <1>6, <1>9
  <2>3. \A i \in 1 .. Len(Refuse) : Refuse[i].op # "remove"
    BY RefuseFacts
  <2> QED
    BY <2>1, <2>2, <2>3 DEF StartDiscards
<1>11. CASE f.intent \in {"Superseded", "Restore"} /\ Exists(disk, s, Reference)
  <2>1. RecoverReference(f) \in {a, Refuse}
    BY <1>3, <1>4, <1>5, <1>8, <1>11 DEF RecoverReference, RecoverSuperseded, RecoverRestorable, ReconcileExisting
  <2>2. Sound(disk, s, a)
    <3>1. PICK e : e = <<sp>> /\ LooseScript(e) /\ a = <<rp>> \o e
      <4>1. PICK e : e = <<sp>>
        OBVIOUS
      <4>2. e \in Seq(Step) /\ Len(e) = 1 /\ e[1] = sp /\ a = <<rp>> \o e
        BY <1>5, <1>8, <4>1
      <4>3. LooseScript(e)
        BY <1>6, <4>2 DEF LooseScript, Loose
      <4> QED
        BY <4>1, <4>2, <4>3
    <3>2. SoundStep(disk, s, <<rp>>, 1)
      BY <1>3, <1>6, <1>11, OneFacts DEF SoundStep
    <3> QED
      BY <3>1, <3>2, FirstSound
  <2> QED
    BY <1>4, <1>10, <1>11, <2>1, <2>2, RefuseSound
<1>12. CASE f.intent = "Superseded" /\ ~Exists(disk, s, Reference)
  <2>1. RecoverReference(f) = Refuse
    BY <1>4, <1>12 DEF RecoverReference, RecoverSuperseded
  <2> QED
    BY <1>4, <1>10, <1>12, <2>1, RefuseSound
<1>13. CASE f.intent = "Restore" /\ ~Exists(disk, s, Reference)
  <2>1. RecoverReference(f) = b
    BY <1>3, <1>4, <1>5, <1>8, <1>13 DEF RecoverReference, RecoverRestorable
  <2>2. SoundStep(disk, s, <<mp>>, 1)
    BY <1>3, <1>6, <1>13, OneFacts, PathFacts DEF SoundStep
  <2>3. Sound(disk, s, b)
    BY <1>9, <2>2, FirstSound
  <2> QED
    BY <1>4, <1>10, <1>13, <2>1, <2>3
<1> QED
  BY <1>2, <1>7, <1>11, <1>12, <1>13 DEF Intent

\* How a step changes a lease that is to be discarded: the active reference goes once the
\* marker is in place, and the lease is done with when it has been synced away.
DiscardStep(b, step) ==
  /\ step.op = "remove" /\ step.path.intent \in {"Active", "Discard"} => b.state = "Discard" /\ ~b.pending
  /\ step.lease.state = "Discard" /\ ~step.lease.pending =>
       b.state = "Discard" /\ (~b.pending \/ (step.op = "sync" /\ step.path.intent \in Intent))
  /\ step.lease.state = "Removed" =>
       /\ b.state \in {"Superseded", "Discard"} /\ step.path.intent \in Intent
       /\ b.state = "Discard" => ~b.pending
       /\ b.discard => b.state = "Discard"

Discards(l, io) == \A i \in 1 .. Len(io) : DiscardStep(Before(l, io, i), io[i])

LEMMA DiscardsTail ==
  ASSUME NEW l, NEW io \in Seq(Step), io # <<>>, Discards(l, io)
  PROVE  Discards(io[1].lease, Tail(io)) /\ DiscardStep(l, io[1])
<1>1. /\ Len(io) \in Nat /\ Len(io) >= 1 /\ 1 \in 1 .. Len(io)
      /\ \A i \in 1 .. Len(Tail(io)) : i + 1 \in 1 .. Len(io) /\ Tail(io)[i] = io[i + 1]
      /\ Len(Tail(io)) \in Nat
  BY HeadFacts
<1>2. PICK b : b = Tail(io)
  OBVIOUS
<1>3. PICK m : m = io[1].lease
  OBVIOUS
<1>4. DiscardStep(l, io[1])
  BY <1>1 DEF Discards, Before
<1>5. ASSUME NEW i \in 1 .. Len(b)
      PROVE  DiscardStep(Before(m, b, i), b[i])
  <2>1. DiscardStep(Before(l, io, i + 1), io[i + 1]) /\ b[i] = io[i + 1] /\ i \in Nat /\ i >= 1
    BY <1>1, <1>2, <1>5 DEF Discards
  <2>2. i + 1 # 1 /\ (i + 1) - 1 = i
    BY <2>1
  <2>3. Before(l, io, i + 1) = io[i].lease
    BY <2>2 DEF Before
  <2>4. io[i].lease = Before(m, b, i)
    <3>1. CASE i = 1
      BY <1>3, <3>1 DEF Before
    <3>2. CASE i # 1
      <4>1. i - 1 \in 1 .. Len(b) /\ (i - 1) + 1 = i
        BY <1>1, <1>2, <1>5, <3>2
      <4>2. b[i - 1] = io[i]
        BY <1>1, <1>2, <4>1
      <4> QED
        BY <3>2, <4>2 DEF Before
    <3> QED
      BY <3>1, <3>2
  <2> QED
    BY <2>1, <2>3, <2>4
<1> QED
  BY <1>2, <1>3, <1>4, <1>5 DEF Discards

LEMMA JoinDiscards ==
  ASSUME NEW l, NEW m, NEW a \in Seq(Step), NEW b \in Seq(Step), Discards(l, a), Discards(m, b),
         m = FinalLease(l, a)
  PROVE  a \o b \in Seq(Step) /\ Discards(l, a \o b)
<1>1. PICK c : c = a \o b
  OBVIOUS
<1>2. /\ c \in Seq(Step) /\ Len(c) = Len(a) + Len(b) /\ Len(a) \in Nat /\ Len(b) \in Nat
      /\ \A i \in 1 .. Len(a) : c[i] = a[i]
      /\ \A i \in 1 .. Len(b) : c[Len(a) + i] = b[i]
  BY <1>1, JoinFacts
<1>3. m = IF Len(a) = 0 THEN l ELSE a[Len(a)].lease
  BY EmptySeq DEF FinalLease
<1>4. ASSUME NEW i \in 1 .. Len(a)
      PROVE  DiscardStep(Before(l, c, i), c[i])
  <2>1. c[i] = a[i] /\ Before(l, c, i) = Before(l, a, i)
    BY <1>2, <1>4 DEF Before
  <2> QED
    BY <1>4, <2>1 DEF Discards
<1>5. ASSUME NEW k \in 1 .. Len(b)
      PROVE  DiscardStep(Before(l, c, Len(a) + k), c[Len(a) + k])
  <2>1. c[Len(a) + k] = b[k] /\ Before(l, c, Len(a) + k) = Before(m, b, k)
    <3>1. CASE k = 1
      <4>1. Len(a) # 0 => Len(a) \in 1 .. Len(a) /\ Len(a) + 1 - 1 = Len(a) /\ Len(a) + 1 # 1
        BY <1>2
      <4> QED
        BY <1>2, <1>3, <3>1, <4>1 DEF Before
    <3>2. CASE k > 1
      <4>1. /\ k - 1 \in 1 .. Len(b) /\ Len(a) + k - 1 = Len(a) + (k - 1) /\ Len(a) + k # 1
            /\ k # 1
        BY <1>2, <1>5, <3>2
      <4>2. c[Len(a) + (k - 1)] = b[k - 1] /\ c[Len(a) + k] = b[k]
        BY <1>2, <1>5, <4>1
      <4>3. c[Len(a) + k - 1] = b[k - 1]
        BY <4>1, <4>2
      <4> QED
        BY <4>1, <4>2, <4>3 DEF Before
    <3> QED
      BY <1>5, <3>1, <3>2
  <2> QED
    BY <1>5, <2>1 DEF Discards
<1>6. \A i \in 1 .. Len(c) : i \in 1 .. Len(a) \/ \E k \in 1 .. Len(b) : i = Len(a) + k
  <2> SUFFICES ASSUME NEW i \in 1 .. Len(c), i \notin 1 .. Len(a)
               PROVE  \E k \in 1 .. Len(b) : i = Len(a) + k
    OBVIOUS
  <2>1. i - Len(a) \in 1 .. Len(b) /\ i = Len(a) + (i - Len(a))
    BY <1>2
  <2> QED
    BY <2>1
<1>7. Discards(l, c)
  BY <1>4, <1>5, <1>6 DEF Discards
<1> QED
  BY <1>1, <1>2, <1>7

\* A move never ends a discard.
LEMMA MoveDiscards ==
  ASSUME NEW l, NEW step \in Step, step.op = "move", step.lease.pending, step.lease.state # "Removed"
  PROVE  <<step>> \in Seq(Step) /\ Discards(l, <<step>>) /\ FinalLease(l, <<step>>) = step.lease
<1>1. PICK c : c = <<step>> /\ c \in Seq(Step) /\ Len(c) = 1 /\ c[1] = step
  BY OneFacts
<1>2. Discards(l, c)
  BY <1>1 DEF Discards, DiscardStep
<1>3. c # <<>>
  BY <1>1
<1> QED
  BY <1>1, <1>2, <1>3 DEF FinalLease

LEMMA ConsDiscards ==
  ASSUME NEW l, NEW step \in Step, step.op = "move", step.lease.pending, step.lease.state # "Removed",
         NEW b \in Seq(Step), Discards(step.lease, b)
  PROVE  Discards(l, <<step>> \o b)
<1>1. PICK a : a = <<step>>
  OBVIOUS
<1>2. a \in Seq(Step) /\ Discards(l, a) /\ FinalLease(l, a) = step.lease
  BY <1>1, MoveDiscards
<1>3. Discards(l, a \o b)
  BY <1>2, JoinDiscards
<1> QED
  BY <1>1, <1>3

LEMMA SyncDiscards ==
  ASSUME NEW l \in Lease, l.state # "Removed"
  PROVE  LET a == SyncPendingNamespaces(l)
         IN  /\ a \in Seq(Step) /\ Discards(l, a)
             /\ FinalLease(l, a) \in Lease /\ SameLease(l, FinalLease(l, a)) /\ ~FinalLease(l, a).pending
             /\ FinalLease(l, a) = Synced(l)
<1>1. PICK p \in Paths : p = Quarantine(l.nonce, "Restore") /\ p.intent = "Restore"
  BY PathFacts DEF Lease, Intent
<1>2. PICK k \in Lease : k = Synced(l) /\ SameLease(l, k) /\ ~k.pending
  BY SyncedFacts
<1>3. PICK x \in Step, y \in Step : x = Sync(Reference, l) /\ y = Sync(p, k)
  BY StepFacts, PathFacts
<1>4. x.op = "sync" /\ x.lease = l /\ y.op = "sync" /\ y.lease = k /\ y.path = p
  BY <1>3, StepFacts, PathFacts
<1>5. PICK a : a = SyncPendingNamespaces(l)
  OBVIOUS
<1>6. CASE ~l.pending
  <2>1. Len(a) = 0 /\ a = <<>> /\ a \in Seq(Step)
    BY <1>5, <1>6, SyncPendingFacts DEF SyncPendingNamespaces
  <2>2. k = l
    BY <1>2, <1>6 DEF Synced, Lease
  <2> QED
    BY <1>2, <1>5, <2>1, <2>2 DEF Discards, FinalLease
<1>7. CASE l.pending
  <2>1. a \in Seq(Step) /\ Len(a) = 2 /\ a[1] = x /\ a[2] = y
    BY <1>1, <1>2, <1>3, <1>5, <1>7, SyncPendingFacts
  <2>2. DiscardStep(Before(l, a, 1), a[1])
    BY <1>4, <1>7, <2>1 DEF DiscardStep, Before
  <2>3. DiscardStep(Before(l, a, 2), a[2])
    BY <1>1, <1>2, <1>4, <2>1 DEF DiscardStep, Before, SameLease, Intent
  <2>4. Discards(l, a)
    BY <2>1, <2>2, <2>3 DEF Discards
  <2>5. FinalLease(l, a) = k
    <3>1. a # <<>>
      <4>1. a \in Seq(Step) /\ Len(a) > 0
        BY <2>1
      <4> QED
        BY <4>1, LongNotEmpty
    <3> QED
      BY <1>4, <2>1, <3>1 DEF FinalLease
  <2> QED
    BY <1>2, <1>5, <2>1, <2>4, <2>5
<1> QED
  BY <1>6, <1>7 DEF Lease

LEMMA RemoveSupersededDiscards ==
  ASSUME NEW l \in Lease, l.state = "Superseded", ~l.discard
  PROVE  RemoveSuperseded(l) \in Seq(Step) /\ Discards(l, RemoveSuperseded(l))
<1>1. PICK path \in Paths : path = Quarantine(l.nonce, "Superseded") /\ path.intent = "Superseded"
  BY PathFacts DEF Lease, Intent
<1>2. PICK k \in Lease, z \in Lease : k = Synced(l) /\ z = RemovedLease(l)
  BY SyncedFacts, RemovedFacts
<1>3. PICK r \in Step, q \in Step : r = Remove(path, k) /\ q = Sync(path, z)
  BY StepFacts
<1>4. r.op = "remove" /\ r.path = path /\ r.lease = k /\ q.op = "sync" /\ q.path = path /\ q.lease = z
  BY <1>3, StepFacts
<1>5. k.state = "Superseded" /\ z.state = "Removed" /\ ~k.discard
  BY <1>2, SyncedFacts, RemovedFacts DEF SameLease
<1>6. PICK a, b : a = SyncPendingNamespaces(l) /\ b = <<r, q>>
  OBVIOUS
<1>7. a \in Seq(Step) /\ Discards(l, a) /\ FinalLease(l, a) = k
  BY <1>2, <1>6, SyncDiscards
<1>8. b \in Seq(Step) /\ Len(b) = 2 /\ b[1] = r /\ b[2] = q
  BY <1>3, <1>6, TwoFacts
<1>9. Discards(k, b)
  <2>1. DiscardStep(Before(k, b, 1), b[1])
    BY <1>1, <1>4, <1>5, <1>8 DEF DiscardStep, Before
  <2>2. DiscardStep(Before(k, b, 2), b[2])
    BY <1>1, <1>4, <1>5, <1>8 DEF DiscardStep, Before, Intent
  <2> QED
    BY <1>8, <2>1, <2>2 DEF Discards
<1>10. RemoveSuperseded(l) = a \o b
  BY <1>1, <1>2, <1>3, <1>6 DEF RemoveSuperseded
<1> QED
  BY <1>7, <1>8, <1>9, <1>10, JoinDiscards

LEMMA RefuseDiscards ==
  ASSUME NEW l
  PROVE  Discards(l, Refuse) /\ Discards(l, <<>>)
<1>1. Refuse[1].lease = NoLease /\ Refuse[1].op = "refuse" /\ Len(Refuse) = 1
  BY RefuseFacts DEF Leaseless
<1>2. Discards(l, Refuse)
  BY <1>1, LeaseFacts DEF Discards, DiscardStep
<1>3. Discards(l, <<>>)
  BY EmptyFacts DEF Discards
<1> QED
  BY <1>2, <1>3

LEMMA RetireDiscards ==
  ASSUME NEW l \in Lease
  PROVE  Discards(l, Retire(l))
<1>1. CASE DiscardPending(l)
  BY <1>1, RefuseDiscards DEF Retire, DiscardPending
<1>2. CASE ~DiscardPending(l) /\ l.state = "Restore"
  <2>1. PICK p \in Paths, q \in Paths : p = Quarantine(l.nonce, "Restore") /\ q = Quarantine(l.nonce, "Superseded")
    BY PathFacts DEF Lease, Intent
  <2>2. PICK m \in Lease : m = Moved(l, "Superseded") /\ m.state = "Superseded" /\ m.pending /\ ~m.discard
    BY <1>2, MovedFacts DEF LeaseState, DiscardPending
  <2>3. PICK step \in Step : step = Move(p, q, m) /\ step.op = "move" /\ step.lease = m
    BY StepFacts
  <2>5. RemoveSuperseded(m) \in Seq(Step) /\ Discards(m, RemoveSuperseded(m))
    BY <2>2, RemoveSupersededDiscards
  <2>6. Retire(l) = <<step>> \o RemoveSuperseded(m)
    BY <1>2, <2>1, <2>2, <2>3 DEF Retire, DiscardPending
  <2> QED
    BY <2>2, <2>3, <2>5, <2>6, ConsDiscards
<1>3. CASE ~DiscardPending(l) /\ l.state = "Superseded"
  BY <1>3, RemoveSupersededDiscards DEF Retire, DiscardPending
<1>4. CASE ~DiscardPending(l) /\ l.state = "Active"
  BY <1>4, SyncDiscards DEF Retire, DiscardPending
<1>5. CASE ~DiscardPending(l) /\ l.state \in {"Removed", "None"}
  BY <1>5, RefuseDiscards DEF Retire, DiscardPending
<1> QED
  BY <1>1, <1>2, <1>3, <1>4, <1>5 DEF Lease, LeaseState, DiscardPending

LEMMA RestoreDiscards ==
  ASSUME NEW s, NEW l \in Lease
  PROVE  Discards(l, Restore(s, l))
<1>1. CASE l.discard \/ ActiveConflicts(s, l) \/ l.state \in {"Discard", "Removed"}
  BY <1>1, RefuseDiscards DEF Restore
<1>2. CASE ~l.discard /\ ~ActiveConflicts(s, l) /\ l.state = "Restore" /\ ~ActiveSupersedes(s, l)
  <2>1. PICK p \in Paths : p = Quarantine(l.nonce, "Restore")
    BY PathFacts DEF Lease, Intent
  <2>2. PICK m \in Lease : m = Moved(l, "Active") /\ m.state = "Active" /\ m.pending
    BY MovedFacts DEF LeaseState
  <2>3. PICK step \in Step : step = Move(p, Reference, m) /\ step.op = "move" /\ step.lease = m
    BY StepFacts, PathFacts
  <2>5. SyncPendingNamespaces(m) \in Seq(Step) /\ Discards(m, SyncPendingNamespaces(m))
    BY <2>2, SyncDiscards
  <2>6. Restore(s, l) = <<step>> \o SyncPendingNamespaces(m)
    BY <1>2, <2>1, <2>2, <2>3 DEF Restore
  <2> QED
    BY <2>2, <2>3, <2>5, <2>6, ConsDiscards
<1>3. CASE /\ ~l.discard /\ ~ActiveConflicts(s, l)
           /\ (l.state = "Restore" /\ ActiveSupersedes(s, l)) \/ l.state = "Superseded"
  BY <1>3, RetireDiscards DEF Restore
<1>4. CASE ~l.discard /\ ~ActiveConflicts(s, l) /\ l.state = "Active"
  BY <1>4, SyncDiscards DEF Restore
<1>5. CASE ~l.discard /\ ~ActiveConflicts(s, l) /\ l.state = "None"
  BY <1>5, RefuseDiscards DEF Restore
<1> QED
  BY <1>1, <1>2, <1>3, <1>4, <1>5 DEF Lease, LeaseState

LEMMA RequarantineDiscards ==
  ASSUME NEW l \in Lease
  PROVE  Discards(l, Requarantine(l))
<1>1. CASE l.state # "Active"
  BY <1>1, RefuseDiscards DEF Requarantine
<1>2. CASE l.state = "Active"
  <2>1. PICK p \in Paths : p = Quarantine(l.nonce, "Restore")
    BY PathFacts DEF Lease, Intent
  <2>2. PICK m \in Lease : m = Moved(l, "Restore") /\ m.state = "Restore" /\ m.pending
    BY MovedFacts DEF LeaseState
  <2>3. PICK step \in Step : step = Move(Reference, p, m) /\ step.op = "move" /\ step.lease = m
    BY StepFacts, PathFacts
  <2>4. PICK a, b, c : a = SyncPendingNamespaces(l) /\ b = <<step>> /\ c = SyncPendingNamespaces(m)
    OBVIOUS
  <2>5. PICK k : k = FinalLease(l, a)
    OBVIOUS
  <2>6. a \in Seq(Step) /\ Discards(l, a)
    BY <1>2, <2>4, SyncDiscards
  <2>7. b \in Seq(Step) /\ Discards(k, b) /\ FinalLease(k, b) = m /\ b # <<>> /\ Len(b) = 1 /\ b[1] = step
    BY <2>2, <2>3, <2>4, MoveDiscards, OneFacts
  <2>8. c \in Seq(Step) /\ Discards(m, c)
    BY <2>2, <2>4, SyncDiscards
  <2>9. a \o b \in Seq(Step) /\ Discards(l, a \o b)
    BY <2>5, <2>6, <2>7, JoinDiscards
  <2>10. FinalLease(l, a \o b) = m
    BY <2>3, <2>6, <2>7, JoinFinal
  <2>11. Discards(l, (a \o b) \o c)
    BY <2>8, <2>9, <2>10, JoinDiscards
  <2>12. Requarantine(l) = (a \o b) \o c
    BY <1>2, <2>1, <2>2, <2>3, <2>4 DEF Requarantine
  <2> QED
    BY <2>11, <2>12
<1> QED
  BY <1>1, <1>2

LEMMA DiscardTailDiscards ==
  ASSUME NEW l \in Lease, l.state = "Discard"
  PROVE  DiscardTail(l) \in Seq(Step) /\ Discards(Synced(l), DiscardTail(l))
<1>1. PICK q \in Paths : q = Quarantine(l.nonce, "Discard") /\ q.intent = "Discard"
  BY PathFacts DEF Lease, Intent
<1>2. PICK k \in Lease, z \in Lease : k = Synced(l) /\ z = RemovedLease(l)
  BY SyncedFacts, RemovedFacts
<1>3. k.state = "Discard" /\ ~k.pending /\ z.state = "Removed"
  BY <1>2, SyncedFacts, RemovedFacts DEF SameLease
<1>4. PICK b : b = DiscardTail(l)
  OBVIOUS
<1>5. /\ b \in Seq(Step) /\ Len(b) = 4 /\ b[1] = Remove(Reference, k)
      /\ b[2] = Sync(Reference, k) /\ b[3] = Remove(q, k) /\ b[4] = Sync(q, z)
  BY <1>1, <1>2, <1>4, DiscardTailFacts
<1>6. /\ b[1].op = "remove" /\ b[1].lease = k /\ b[2].op = "sync" /\ b[2].lease = k
      /\ b[3].op = "remove" /\ b[3].lease = k
      /\ b[4].op = "sync" /\ b[4].path = q /\ b[4].lease = z
  BY <1>5, StepFacts, PathFacts
<1>7. DiscardStep(Before(k, b, 1), b[1]) /\ DiscardStep(Before(k, b, 2), b[2])
  BY <1>3, <1>6 DEF DiscardStep, Before
<1>8. DiscardStep(Before(k, b, 3), b[3])
  BY <1>3, <1>6 DEF DiscardStep, Before
<1>9. DiscardStep(Before(k, b, 4), b[4])
  BY <1>1, <1>3, <1>6 DEF DiscardStep, Before, Intent
<1>10. Discards(k, b)
  <2>1. 1 .. Len(b) = {1, 2, 3, 4}
    BY <1>5
  <2> QED
    BY <1>7, <1>8, <1>9, <2>1 DEF Discards
<1> QED
  BY <1>2, <1>4, <1>5, <1>10

LEMMA DiscardDiscards ==
  ASSUME NEW l \in Lease, l.state \in Intent \cup {"Active"}, l.discard
  PROVE  Discards(l, Discard(l))
<1>1. CASE l.state = "Discard"
  <2>1. Discard(l) = SyncPendingNamespaces(l) \o DiscardTail(l)
    BY <1>1, DiscardParts
  <2> QED
    BY <1>1, <2>1, SyncDiscards, DiscardTailDiscards, JoinDiscards
<1>2. CASE l.state # "Discard"
  <2>1. PICK m \in Lease, step \in Step :
                 /\ Discard(l) = (<<step>> \o SyncPendingNamespaces(m)) \o DiscardTail(m)
                 /\ m.state = "Discard" /\ m.pending /\ step.op = "move" /\ step.lease = m
    BY <1>2, DiscardParts
  <2>2. PICK a, b, c : a = <<step>> /\ b = SyncPendingNamespaces(m) /\ c = DiscardTail(m)
    OBVIOUS
  <2>3. a \in Seq(Step) /\ Discards(l, a) /\ FinalLease(l, a) = m
    BY <2>1, <2>2, MoveDiscards
  <2>4. b \in Seq(Step) /\ Discards(m, b) /\ FinalLease(m, b) = Synced(m) /\ b # <<>> /\ b[Len(b)].lease = Synced(m)
    <3>1. b \in Seq(Step) /\ Discards(m, b) /\ FinalLease(m, b) = Synced(m)
      BY <2>1, <2>2, SyncDiscards
    <3>2. b # <<>>
      BY <2>1, <2>2, SyncPendingFacts
    <3> QED
      BY <3>1, <3>2 DEF FinalLease
  <2>5. a \o b \in Seq(Step) /\ Discards(l, a \o b)
    BY <2>3, <2>4, JoinDiscards
  <2>6. FinalLease(l, a \o b) = Synced(m)
    BY <2>3, <2>4, JoinFinal
  <2>7. c \in Seq(Step) /\ Discards(Synced(m), c)
    BY <2>1, <2>2, DiscardTailDiscards
  <2>8. Discards(l, (a \o b) \o c)
    BY <2>5, <2>6, <2>7, JoinDiscards
  <2> QED
    BY <2>1, <2>2, <2>8
<1> QED
  BY <1>1, <1>2

LEMMA LeaseReferenceDiscards ==
  ASSUME SessionInv, NEW s \in Sessions, NEW l
  PROVE  Discards(l, LeaseReference(s))
<1>1. NewNonce(s) \in Nat
  BY NonceFacts DEF SessionInv, TypeInv
<1>2. PICK m : m = [state |-> "Restore", nonce |-> NewNonce(s), discard |-> FALSE, pending |-> TRUE, slot |-> TRUE]
  OBVIOUS
<1>3. m \in Lease /\ m.state = "Restore" /\ m.pending
  BY <1>1, <1>2 DEF Lease, LeaseState
<1>4. PICK p \in Paths : p = Quarantine(m.nonce, "Restore")
  BY <1>3, PathFacts DEF Lease, Intent
<1>5. PICK step \in Step : step = Move(Reference, p, m) /\ step.op = "move" /\ step.lease = m
  BY <1>3, StepFacts, PathFacts
<1>7. SyncPendingNamespaces(m) \in Seq(Step) /\ Discards(m, SyncPendingNamespaces(m))
  BY <1>3, SyncDiscards
<1>8. LeaseReference(s) = <<step>> \o SyncPendingNamespaces(m)
  BY <1>2, <1>4, <1>5 DEF LeaseReference
<1> QED
  BY <1>3, <1>5, <1>7, <1>8, ConsDiscards

-----------------------------------------------------------------------------
(* The script that each step of the server starts *)

DiscardingPcs == {"discarded", "resolvedDiscard"}

\* The call has no script to run.
Plain(c) == c.io = <<>> /\ c.pc \notin DiscardingPcs \cup StartPcs \cup {"persisted"}

Scripted(c) ==
  /\ c.pc \notin StartPcs \cup {"persisted"}
  /\ \/ c.io \in {<<>>, Refuse, Restore(c.v, c.lease)}
     \/ c.io \in {SyncPendingNamespaces(c.lease), Requarantine(c.lease)} /\ c.lease.state # "Removed"
     \/ c.io = Retire(c.lease) /\ (c.lease.state = "Restore" => Exists(disk, c.v, Reference))
     \/ c.io = Discard(c.lease) /\ c.lease.discard /\ LiveLease(c.lease)
     \/ c.io = LeaseReference(c.v)
  /\ c.pc \in DiscardingPcs => c.io = Discard(c.lease) /\ c.lease.discard /\ LiveLease(c.lease)

LEMMA ScriptedSound ==
  ASSUME SessionInv, NEW c, c.lease \in Lease, c.v \in Sessions, Scripted(c)
  PROVE  Sound(disk, c.v, c.io) /\ Discards(c.lease, c.io)
<1>0. PICK io : io = c.io
  OBVIOUS
<1>1. PICK l \in Lease, v \in Sessions : l = c.lease /\ v = c.v /\ io = c.io
  BY <1>0
<1>2. CASE io \in {<<>>, Refuse, Restore(v, l)}
  <2>1. Sound(disk, v, io)
    BY <1>2, RefuseSound, RestoreSound
  <2>2. Discards(l, io)
    BY <1>2, RefuseDiscards, RestoreDiscards
  <2> QED
    BY <1>1, <2>1, <2>2
<1>3. CASE io \in {SyncPendingNamespaces(l), Requarantine(l)} /\ l.state # "Removed"
  <2>1. Sound(disk, v, io)
    BY <1>3, SyncLoose, LooseSound, RequarantineSound
  <2>2. Discards(l, io)
    BY <1>3, SyncDiscards, RequarantineDiscards
  <2> QED
    BY <1>1, <2>1, <2>2
<1>4. CASE io = Retire(l) /\ (l.state = "Restore" => Exists(disk, v, Reference))
  BY <1>1, <1>4, RetireSound, RetireDiscards
<1>5. CASE io = Discard(l) /\ l.discard /\ LiveLease(l)
  <2>1. l.state \in Intent \cup {"Active"}
    BY <1>5 DEF LiveLease, Lease, LeaseState, Intent
  <2> QED
    BY <1>1, <1>5, <2>1, DiscardSound, DiscardDiscards
<1>6. CASE io = LeaseReference(v)
  BY <1>1, <1>6, LeaseReferenceSound, LeaseReferenceDiscards
<1> QED
  BY <1>1, <1>2, <1>3, <1>4, <1>5, <1>6 DEF Scripted

LEMMA PlainScripted ==
  ASSUME NEW c, Plain(c)
  PROVE  Scripted(c)
BY DEF Plain, Scripted

LEMMA IdlePlain == Plain(Idle)
BY IdleFacts DEF Plain, DiscardingPcs

LEMMA EnterPlain ==
  ASSUME NEW pc, NEW top, NEW then, NEW s, NEW v, NEW l, pc \notin DiscardingPcs \cup StartPcs \cup {"persisted"}
  PROVE  Plain(Enter(pc, top, then, s, v, l))
BY DEF Plain, Enter

LEMMA ReturnPlain ==
  ASSUME SessionInv, NEW ok, NEW l
  PROVE  Plain(Return(ok, l))
<1>1. proc \in CallType
  BY Now
<1>2. proc.then \in Thens
  BY <1>1 DEF CallType
<1>3. Return(ok, l).pc = proc.then /\ Return(ok, l).io = <<>>
  BY <1>1 DEF Return, CallType
<1> QED
  BY <1>2, <1>3 DEF Plain, Thens, DiscardingPcs

LEMMA CheckActivePlain ==
  ASSUME SessionInv
  PROVE  Plain(CheckActive)
<1>1. Call("leaseActive", NoLease, <<>>).pc = "leaseActive" /\ Call("leaseActive", NoLease, <<>>).io = <<>>
  BY Now DEF Call, CallType
<1>2. Plain(Call("leaseActive", NoLease, <<>>))
  BY <1>1 DEF Plain, DiscardingPcs
<1> QED
  BY <1>2, ReturnPlain DEF CheckActive

LEMMA InsertEndsPlain ==
  ASSUME NEW ok, InsertEnds(ok)
  PROVE  Plain(proc')
<1>1. PICK c : c = proc'
  OBVIOUS
<1>2. PICK b : b = Begin("respond", "finish", "none", proc.s, NoLease) /\ Plain(b)
  BY EnterPlain DEF Begin, DiscardingPcs
<1>3. b.pc = "respond" /\ b.io = <<>>
  BY <1>2 DEF Begin, Enter
<1>4. c \in {[b EXCEPT !.ok = ok], Idle}
  BY <1>1, <1>2 DEF InsertEnds
<1>5. [b EXCEPT !.ok = ok].pc = "respond" /\ [b EXCEPT !.ok = ok].io = <<>>
  BY <1>2 DEF Begin, Enter
<1> QED
  BY <1>1, <1>4, <1>5, IdlePlain DEF Plain, DiscardingPcs

LEMMA PlainSteps ==
  ASSUME SessionInv,
         \/ ContinueCold \/ AttachResidentSession \/ FinishWake \/ FinishWakeError \/ PersistedMetadata
         \/ ReferenceRestored \/ Retired \/ RetainedSession \/ TaskDiscarded \/ Respond
         \/ FitContinues \/ StoreHibernated \/ RestoreFailedHibernation
  PROVE  Plain(proc')
<1>1. CASE ContinueCold \/ AttachResidentSession \/ FinishWakeError \/ ReferenceRestored
  BY <1>1, IdlePlain DEF ContinueCold, AttachResidentSession, FinishWakeError, ReferenceRestored
<1>2. CASE FinishWake \/ PersistedMetadata \/ TaskDiscarded \/ Respond
  <2>1. \A top, then, s, l : Plain(Begin("lease", top, then, s, l)) /\ Plain(Begin("fit", top, then, s, l))
                              /\ Plain(Begin("discard", top, then, s, l))
    BY EnterPlain DEF Begin, DiscardingPcs
  <2> QED
    BY <1>2, <2>1, IdlePlain DEF FinishWake, PersistedMetadata, TaskDiscarded, Respond
<1>3. CASE Retired \/ RetainedSession \/ FitContinues \/ StoreHibernated \/ RestoreFailedHibernation
  <2>1. Plain(Proceed("fit", "none", proc.s, NoLease))
    BY EnterPlain DEF Proceed, DiscardingPcs
  <2>2. \/ proc' = Proceed("fit", "none", proc.s, NoLease) \/ proc' = Idle
        \/ InsertEnds(FALSE)
    BY <1>3 DEF Retired, RetainedSession, FitContinues, StoreHibernated, RestoreFailedHibernation
  <2> QED
    BY <2>1, <2>2, IdlePlain, InsertEndsPlain
<1> QED
  BY <1>1, <1>2, <1>3

\* A script of the call.
LEMMA CallScripted ==
  ASSUME SessionInv, NEW pc, NEW l, NEW io, NEW c, c = Call(pc, l, io)
  PROVE  c.pc = pc /\ c.lease = l /\ c.io = io /\ c.v = proc.v
BY Now DEF Call, CallType

LEMMA DiscardLeasedScripted ==
  ASSUME SessionInv, NEW l \in Lease, LiveLease(l)
  PROVE  /\ Scripted(DiscardLeased(l))
         /\ \A then : Scripted([DiscardLeased(l) EXCEPT !.then = then])
<1>1. PICK m \in Lease : m = [l EXCEPT !.discard = TRUE] /\ m.discard /\ m.state = l.state
  BY DiscardingFacts
<1>2. LiveLease(m)
  BY <1>1 DEF LiveLease
<1>3. PICK c : c = DiscardLeased(l) /\ c = Call("discarded", m, Discard(m))
  BY <1>1 DEF DiscardLeased
<1>4. c.pc = "discarded" /\ c.lease = m /\ c.io = Discard(m)
  BY <1>3, CallScripted
<1>5. Scripted(c)
  BY <1>1, <1>2, <1>4 DEF Scripted, DiscardingPcs
<1>6. ASSUME NEW then
      PROVE  Scripted([c EXCEPT !.then = then])
  <2>1. PICK d : d = [c EXCEPT !.then = then]
    OBVIOUS
  <2>2. d.pc = "discarded" /\ d.lease = m /\ d.io = Discard(m)
    BY <1>3, <1>4, <2>1, Now DEF Call, CallType
  <2>3. Scripted(d)
    BY <1>1, <1>2, <2>2 DEF Scripted, DiscardingPcs
  <2> QED
    BY <2>1, <2>3
<1> QED
  BY <1>3, <1>5, <1>6

LEMMA RestoreScripted ==
  ASSUME SessionInv, NEW pc, pc \notin DiscardingPcs \cup StartPcs \cup {"persisted"}, NEW l
  PROVE  Scripted(Call(pc, l, Restore(proc.v, l)))
<1>1. PICK c : c = Call(pc, l, Restore(proc.v, l))
  OBVIOUS
<1>2. c.pc = pc /\ c.lease = l /\ c.io = Restore(proc.v, l) /\ c.v = proc.v
  BY <1>1, CallScripted
<1>3. Scripted(c)
  BY <1>2 DEF Scripted
<1> QED
  BY <1>1, <1>3

LEMMA WakeHibernatedSessionScripted ==
  ASSUME SessionInv, WakeHibernatedSession
  PROVE  Scripted(proc')
<1>1. PICK c : c = proc'
  OBVIOUS
<1>2. proc.v = proc.s /\ proc.lease \in Lease /\ Waiting(proc.lease)
  BY Now DEF CallOK, HandOK, WakeHibernatedSession, Reached
<1>3. \/ c = Idle
      \/ \E outcome \in {"woken", "wakeFailed"} : c = Call(outcome, proc.lease, Restore(proc.v, proc.lease))
      \/ proc.lease # NoLease /\ c = [DiscardLeased(proc.lease) EXCEPT !.then = "ended"]
  BY <1>1, <1>2 DEF WakeHibernatedSession
<1> QED
  BY <1>1, <1>2, <1>3, IdlePlain, PlainScripted, RestoreScripted, DiscardLeasedScripted DEF Waiting, DiscardingPcs

LEMMA HibernateStoredScripted ==
  ASSUME SessionInv, HibernateStored
  PROVE  Scripted(proc')
<1>1. PICK c : c = proc'
  OBVIOUS
<1>2. proc.lease \in Lease /\ Waiting(proc.lease)
  BY Now DEF HandOK, HibernateStored, Reached
<1>3. CASE InsertEnds(FALSE)
  BY <1>3, InsertEndsPlain, PlainScripted
<1>4. \/ InsertEnds(FALSE)
      \/ \E outcome \in {"captured", "uncaptured"} : c = Call(outcome, proc.lease, Restore(proc.v, proc.lease))
      \/ proc.lease # NoLease /\ c = [DiscardLeased(proc.lease) EXCEPT !.then = "lost"]
  BY <1>1 DEF HibernateStored
<1>5. ASSUME NEW outcome \in {"captured", "uncaptured"}, c = Call(outcome, proc.lease, Restore(proc.v, proc.lease))
      PROVE  Scripted(c)
  BY <1>5, RestoreScripted DEF DiscardingPcs
<1>6. CASE proc.lease # NoLease /\ c = [DiscardLeased(proc.lease) EXCEPT !.then = "lost"]
  BY <1>1, <1>2, <1>6, DiscardLeasedScripted DEF Waiting
<1> QED
  BY <1>1, <1>3, <1>4, <1>5, <1>6

LEMMA RestorePersistedScripted ==
  ASSUME SessionInv, RestorePersisted
  PROVE  Scripted(proc')
<1>1. PICK c : c = proc'
  OBVIOUS
<1>2. proc.v = proc.s
  BY Now DEF CallOK, RestorePersisted, Reached
<1>3. c = Idle \/ c = Call("unloaded", proc.lease, Restore(proc.v, proc.lease))
  BY <1>1, <1>2 DEF RestorePersisted
<1> QED
  BY <1>1, <1>3, IdlePlain, PlainScripted, RestoreScripted DEF DiscardingPcs

LEMMA FitScripted ==
  ASSUME SessionInv, Fit
  PROVE  Scripted(proc')
<1>1. PICK c : c = proc'
  OBVIOUS
<1>2. ASSUME NEW pc \in {"discard", "hibernating", "lease"}, NEW then, NEW v, NEW l, c = Proceed(pc, then, v, l)
      PROVE  Scripted(c)
  BY <1>2, EnterPlain, PlainScripted DEF Proceed, DiscardingPcs
<1>3. CASE InsertEnds(FALSE) \/ InsertEnds(TRUE)
  BY <1>1, <1>3, InsertEndsPlain, PlainScripted
<1>4. CASE DiscardOldestHibernated
  <2>1. PICK v, l : \/ c = Proceed("discard", "fitDiscarded", v, l)
                    \/ c = [Proceed("evicted", "none", v, l) EXCEPT !.io = Restore(v, l)]
    BY <1>1, <1>4 DEF DiscardOldestHibernated
  <2>2. ASSUME c = [Proceed("evicted", "none", v, l) EXCEPT !.io = Restore(v, l)]
        PROVE  Scripted(c)
    <3>1. c.pc = "evicted" /\ c.lease = l /\ c.v = v /\ c.io = Restore(v, l)
      BY <2>2 DEF Proceed, Enter
    <3> QED
      BY <3>1 DEF Scripted, DiscardingPcs
  <2> QED
    BY <1>1, <1>2, <2>1, <2>2
<1>5. \/ InsertEnds(FALSE) \/ InsertEnds(TRUE) \/ DiscardOldestHibernated
      \/ \E pc \in {"discard", "hibernating", "lease"} : \E then, v, l : c = Proceed(pc, then, v, l)
  BY <1>1 DEF Fit
<1> QED
  BY <1>1, <1>2, <1>3, <1>4, <1>5

LEMMA RequestScripted ==
  ASSUME SessionInv, NEW s \in Sessions,
         LeaseContinueSession(s) \/ RetainFailedSession(s) \/ \E why \in {"cancelled", "ended"} : DiscardStoredSession(s, why)
  PROVE  Scripted(proc')
<1>1. PICK c : c = proc'
  OBVIOUS
<1>2. CASE RetainFailedSession(s)
  <2>1. c = [Begin("retained", "retain", "none", s, mem[s].lease) EXCEPT !.io = Restore(s, mem[s].lease)]
    BY <1>1, <1>2 DEF RetainFailedSession
  <2>2. c.pc = "retained" /\ c.lease = mem[s].lease /\ c.v = s /\ c.io = Restore(s, mem[s].lease)
    BY <2>1 DEF Begin, Enter
  <2> QED
    BY <1>1, <2>2 DEF Scripted, DiscardingPcs
<1>3. ASSUME NEW pc \in {"discard", "lease", "attach", "wake"}, NEW top, NEW then, NEW l
      PROVE  Plain(Begin(pc, top, then, s, l))
  BY <1>3, EnterPlain DEF Begin, DiscardingPcs
<1>4. CASE \E why \in {"cancelled", "ended"} : DiscardStoredSession(s, why)
  <2>1. PICK why \in {"cancelled", "ended"} : proc' = Begin("discard", why, why, s, mem[s].lease)
    BY <1>4 DEF DiscardStoredSession
  <2> QED
    BY <1>3, <2>1, PlainScripted
<1>5. CASE LeaseContinueSession(s)
  <2>1. PICK l : l = mem[s].lease
    OBVIOUS
  <2>2. mem[s].at \in {"absent", "resident", "hibernated"}
    BY <1>5, Now DEF Held, LeaseContinueSession
  <2>3. CASE DiscardPending(l)
    <3>1. mem[s].at # "absent"
      BY <2>1, <2>3, Now, LeaseFacts DEF SessionOK
    <3>2. c = Begin("discard", "continue", "cold", s, l)
      BY <1>1, <1>5, <2>1, <2>3, <3>1 DEF LeaseContinueSession
    <3> QED
      BY <1>1, <1>3, <3>2, PlainScripted
  <2>4. CASE ~DiscardPending(l)
    <3>1. \E pc \in {"lease", "attach", "wake"} : \E then, k : c = Begin(pc, "continue", then, s, k)
      BY <1>1, <1>5, <2>1, <2>2, <2>4 DEF LeaseContinueSession
    <3> QED
      BY <1>1, <1>3, <3>1, PlainScripted
  <2> QED
    BY <2>3, <2>4
<1> QED
  BY <1>2, <1>4, <1>5

LEMMA TakeRecoveryLeaseScripted ==
  ASSUME SessionInv, TakeRecoveryLease
  PROVE  Scripted(proc')
<1>1. PICK c : c = proc'
  OBVIOUS
<1>2. proc.v \in Sessions
  BY Now
<1>3. PICK l \in Lease : l = table[proc.v] /\ Waiting(l)
  BY <1>2, Now DEF RetainedOK
<1>4. c = ResolveRecoveryLease(proc.v, l)
  BY <1>1, <1>3 DEF TakeRecoveryLease
<1>5. CASE l = NoLease
  <2>1. c = CheckActive
    BY <1>4, <1>5, LeaseFacts DEF ResolveRecoveryLease, ActiveConflicts, ActiveSupersedes
  <2> QED
    BY <1>1, <2>1, CheckActivePlain, PlainScripted
<1>6. CASE LiveLease(l) /\ DiscardPending(l)
  <2>1. PICK m \in Lease : m = [l EXCEPT !.discard = TRUE] /\ m.discard /\ m.state = l.state
    BY DiscardingFacts
  <2>2. LiveLease(m)
    BY <1>6, <2>1 DEF LiveLease
  <2>3. c = Call("resolvedDiscard", m, Discard(m))
    BY <1>4, <1>6, <2>1 DEF ResolveRecoveryLease, LiveLease
  <2>4. c.pc = "resolvedDiscard" /\ c.lease = m /\ c.io = Discard(m)
    BY <2>3, CallScripted
  <2> QED
    BY <1>1, <2>1, <2>2, <2>4 DEF Scripted, DiscardingPcs
<1>7. CASE LiveLease(l) /\ ~DiscardPending(l)
  <2>1. l.state \in {"Restore", "Superseded", "Active"}
    BY <1>7 DEF LiveLease, DiscardPending, Lease, LeaseState
  <2>2. \/ c = Call("resolved", l, Refuse) \/ c = Call("resolved", l, SyncPendingNamespaces(l))
        \/ c = Call("resolved", l, Requarantine(l))
        \/ c = Call("resolvedRetire", l, Retire(l)) /\ (l.state = "Restore" => Exists(disk, proc.v, Reference))
    BY <1>4, <1>7, <2>1 DEF ResolveRecoveryLease, ActiveConflicts, ActiveSupersedes
  <2>3. PICK pc, io : /\ c = Call(pc, l, io) /\ pc \in {"resolved", "resolvedRetire"}
                      /\ \/ io \in {Refuse, SyncPendingNamespaces(l), Requarantine(l)}
                         \/ io = Retire(l) /\ (l.state = "Restore" => Exists(disk, proc.v, Reference))
    BY <2>2
  <2>4. c.pc = pc /\ c.lease = l /\ c.io = io /\ c.v = proc.v
    BY <2>3, CallScripted
  <2> QED
    BY <1>1, <2>1, <2>3, <2>4 DEF Scripted, DiscardingPcs
<1> QED
  BY <1>3, <1>5, <1>6, <1>7 DEF Waiting

LEMMA StoreControlScripted ==
  ASSUME SessionInv, StoreControl
  PROVE  Scripted(proc')
<1>1. PICK c : c = proc'
  OBVIOUS
<1>2. CASE Resolved \/ Unleasing
  <2>1. c = CheckActive \/ \E ok \in BOOLEAN : \E l : c = Return(ok, l)
    BY <1>1, <1>2 DEF Resolved, Unleasing
  <2> QED
    BY <1>1, <2>1, CheckActivePlain, ReturnPlain, PlainScripted
<1>3. CASE LeaseActive
  <2>1. c = Call("leasing", NoLease, LeaseReference(proc.v)) \/ \E ok \in BOOLEAN : \E l : c = Return(ok, l)
    BY <1>1, <1>3 DEF LeaseActive
  <2>2. ASSUME c = Call("leasing", NoLease, LeaseReference(proc.v))
        PROVE  Scripted(c)
    <3>1. c.pc = "leasing" /\ c.io = LeaseReference(proc.v) /\ c.v = proc.v
      BY <2>2, CallScripted
    <3> QED
      BY <3>1 DEF Scripted, DiscardingPcs
  <2> QED
    BY <1>1, <2>1, <2>2, ReturnPlain, PlainScripted
<1>4. CASE Leasing
  <2>1. c = Call("unleasing", proc.lease, Restore(proc.v, proc.lease)) \/ \E ok, l : c = Return(ok, l)
    BY <1>1, <1>4 DEF Leasing
  <2> QED
    BY <1>1, <2>1, RestoreScripted, ReturnPlain, PlainScripted DEF DiscardingPcs
<1>5. CASE Discarded
  <2>1. c = [proc EXCEPT !.pc = "panic"] \/ \E ok \in BOOLEAN : \E l : c = Return(ok, l)
    BY <1>1, <1>5 DEF Discarded
  <2>2. ASSUME c = [proc EXCEPT !.pc = "panic"]
        PROVE  Scripted(c)
    <3>1. c.pc = "panic" /\ c.io = <<>>
      BY <1>5, <2>2, Now DEF Discarded, Reached, CallType
    <3> QED
      BY <3>1, PlainScripted DEF Plain, DiscardingPcs
  <2> QED
    BY <1>1, <2>1, <2>2, ReturnPlain, PlainScripted
<1>6. CASE DiscardSession
  <2>1. proc.pc = "discard" /\ proc.v \in Sessions
    BY <1>6, Now DEF DiscardSession, Reached
  <2>2. proc.lease \in Lease /\ Waiting(proc.lease) /\ table[proc.v] \in Lease /\ Waiting(table[proc.v])
    BY <2>1, Now DEF HandOK, RetainedOK
  <2>3. \/ proc.lease # NoLease /\ c = DiscardLeased(proc.lease)
        \/ table[proc.v] # NoLease /\ c = DiscardLeased(table[proc.v])
        \/ \E ok \in BOOLEAN : \E l : c = Return(ok, l)
        \/ c = DiscardLeased(ActiveDiscardLease(proc.v, RecoverySlots < RecoveryLimit))
    BY <1>1, <1>6 DEF DiscardSession
  <2>4. PICK l : l = ActiveDiscardLease(proc.v, RecoverySlots < RecoveryLimit)
    OBVIOUS
  <2>5. l \in Lease /\ LiveLease(l)
    <3>1. NewNonce(proc.v) \in Nat
      BY <2>1, Now, NonceFacts
    <3> QED
      BY <2>4, <3>1 DEF ActiveDiscardLease, Lease, LeaseState, LiveLease
  <2> QED
    BY <1>1, <2>2, <2>3, <2>4, <2>5, DiscardLeasedScripted, ReturnPlain, PlainScripted DEF Waiting
<1> QED
  BY <1>2, <1>3, <1>4, <1>5, <1>6, TakeRecoveryLeaseScripted DEF StoreControl

\* A persist that succeeded has published the reference its lease may be retired for.
LEMMA PersistedScripted ==
  ASSUME SessionInv, Persisted, proc.ok => Exists(disk, proc.v, Reference)
  PROVE  Scripted(proc')
<1>1. PICK c, l : c = proc' /\ l = mem[proc.s].lease
  OBVIOUS
<1>2. proc.v = proc.s
  BY Now DEF CallOK, Persisted, Reached
<1>3. \/ c = Call("retired", l, Retire(l)) /\ proc.ok
      \/ c = [Call("retained", l, Restore(proc.v, l)) EXCEPT !.top = "retain"]
  BY <1>1, <1>2 DEF Persisted
<1>4. CASE c = Call("retired", l, Retire(l)) /\ proc.ok
  <2>1. c.pc = "retired" /\ c.lease = l /\ c.io = Retire(l) /\ c.v = proc.v
    BY <1>4, CallScripted
  <2> QED
    BY <1>1, <1>4, <2>1 DEF Scripted, DiscardingPcs
<1>5. CASE c = [Call("retained", l, Restore(proc.v, l)) EXCEPT !.top = "retain"]
  <2>1. c.pc = "retained" /\ c.lease = l /\ c.io = Restore(proc.v, l) /\ c.v = proc.v
    BY <1>5, Now DEF Call, CallType
  <2> QED
    BY <1>1, <2>1 DEF Scripted, DiscardingPcs
<1> QED
  BY <1>3, <1>4, <1>5

LEMMA ServerStepScripted ==
  ASSUME SessionInv, ServerStep, Persisted /\ proc.ok => Exists(disk, proc.v, Reference)
  PROVE  Scripted(proc')
<1>1. CASE Persisted
  BY <1>1, PersistedScripted
<1>2. CASE WakeHibernatedSession \/ HibernateStored \/ RestorePersisted \/ Fit
  BY <1>2, WakeHibernatedSessionScripted, HibernateStoredScripted, RestorePersistedScripted, FitScripted
<1> QED
  BY <1>1, <1>2, PlainSteps, PlainScripted DEF ServerStep

-----------------------------------------------------------------------------
(* The operations of a script, one after the other *)

\* No file is newer than the session clock.
TimeInv == ~Starting => \A f \in disk.files : f.last_used <= clock

SoundInv ==
  /\ proc.pc # "persisted" => Sound(disk, proc.v, proc.io)
  /\ ~Starting => Discards(proc.lease, proc.io)
  /\ Starting => StartDiscards(disk, proc.v, proc.io)

\* A persist: the archive, then the reference that names it.
PersistStep(step, n, time) ==
  /\ n = 1 => step.op = "link" /\ step.last_used = time
  /\ n = 2 => step.op = "sync" /\ step.path = Blobs
  /\ n = 3 => step.op = "publish" /\ step.last_used = time
  /\ n = 4 => step.op = "sync" /\ step.path = Reference
  /\ n \in 1 .. 4

\* Every state that a power loss may leave has the directory of this path as it is.
SyncedDir(path) == \A ns \in durable : Directory(ns, path) = Directory(disk, path)

PersistOK(c, time) ==
  /\ Len(c.io) <= 4 /\ \A i \in 1 .. Len(c.io) : PersistStep(c.io[i], i + (4 - Len(c.io)), time)
  /\ Len(c.io) \in 1 .. 3 => <<c.v, time>> \in disk.blobs
  /\ Len(c.io) = 1 \/ (Len(c.io) = 0 /\ c.ok) => LastUsed(disk, c.v, Reference) = time
  /\ Len(c.io) = 0 /\ c.ok => SyncedDir(Reference)

PersistInv == proc.pc = "persisted" => clock # 0 /\ PersistOK(proc, clock)

FilesInv == FileInv /\ TimeInv /\ SoundInv /\ PersistInv

\* A session with a lease in hand, or about to have one, has no other quarantined file.
LEMMA AsideLease ==
  ASSUME SessionInv, OneInv, ~Starting, NEW f \in Aside(disk, proc.v),
         LiveLease(proc.lease) \/ (proc.pc = "leasing" /\ proc.lease = NoLease)
  PROVE  LiveLease(proc.lease) /\ proc.lease.state = f.intent /\ proc.lease.nonce = f.nonce
<1>1. PICK v \in Sessions : v = proc.v
  BY Now
<1>2. f \in disk.files /\ f.session = v /\ f.intent # "Active"
  BY <1>1 DEF Aside, Of
<1>3. f.intent \in Intent
  BY <1>2, DiskFacts DEF Namespace, StoredFile
<1>4. HeldBy(mem, table, proc, v, f.nonce, f.intent)
  BY <1>2 DEF SessionInv, OwnedInv
<1>5. \A l : l.state = f.intent => LiveLease(l) /\ l # NoLease
  BY <1>3, LeaseFacts DEF Intent, LiveLease
<1>6. One(mem[v].lease, table[v], proc.lease)
  BY <1>1 DEF OneInv, InHand
<1>7. CASE LiveLease(proc.lease)
  BY <1>1, <1>4, <1>5, <1>6, <1>7 DEF HeldBy, One
<1>8. CASE proc.pc = "leasing" /\ proc.lease = NoLease
  BY <1>1, <1>4, <1>5, <1>8, NoneWhenLeasing DEF HeldBy
<1> QED
  BY <1>7, <1>8

LEMMA PlaceIntent ==
  ASSUME NEW l \in Lease, LiveLease(l)
  PROVE  /\ PlaceOf(l).intent = l.state /\ l.state \in Intent \cup {"Active"}
         /\ l.state = "Active" => PlaceOf(l) = Reference
<1>1. l.state \in Intent \cup {"Active"} /\ l.nonce \in Nat
  BY DEF LiveLease, Lease, LeaseState, Intent
<1>2. CASE l.state = "Active"
  BY <1>2, PathFacts DEF PlaceOf
<1>3. CASE l.state \in Intent /\ l.state # "Active"
  BY <1>1, <1>3, PathFacts DEF PlaceOf
<1> QED
  BY <1>1, <1>2, <1>3

\* What the next operation of the call does to the files is what they allow.
LEMMA ScriptOperation ==
  ASSUME SessionInv, OneInv, FilesInv, ~Starting, IoSucceeds, NEW step, step = Head(proc.io)
  PROVE  /\ step \in Step /\ step = proc.io[1] /\ CanDo(step) /\ step.op # "refuse"
         /\ step.op = "move" => step.to.intent # "Blob"
         /\ OperationOK(disk, proc.v, step)
         /\ step.op \in {"link", "publish"} => proc.pc = "persisted" /\ step.last_used = clock
<1>1. proc.io # <<>> /\ CanDo(step)
  BY DEF IoSucceeds
<1>2. PICK l \in Lease : l = proc.lease
  BY Now
<1>3. /\ step \in Step /\ step = proc.io[1] /\ Waiting(l) /\ step.op # "refuse"
      /\ step.op = "move" => step.to.intent # "Blob"
      /\ Sames(l, step) \/ MovesLease(l, step) \/ Ends(l, step, proc.io)
      /\ MovesLease(l, step) /\ l = NoLease => proc.pc = "leasing"
  BY <1>1, <1>2, StepKinds
<1>4. proc.io \in Seq(Step) /\ Len(proc.io) \in Nat /\ 1 \in 1 .. Len(proc.io) /\ Len(proc.io) >= 1
  BY <1>1, Now, HeadFacts DEF CallType
<1>5. step.lease \in Lease /\ step.op \in {"move", "remove", "sync", "link", "publish"}
  BY <1>3 DEF Step
<1>6. CASE proc.pc = "persisted"
  <2>1. PICK n \in 1 .. 4 : PersistStep(step, n, clock) /\ n = 1 + (4 - Len(proc.io))
    <3>1. PersistOK(proc, clock)
      BY <1>6 DEF FilesInv, PersistInv
    <3>2. PersistStep(proc.io[1], 1 + (4 - Len(proc.io)), clock)
      BY <1>4, <3>1 DEF PersistOK
    <3> QED
      BY <1>3, <3>2 DEF PersistStep
  <2>2. step.op \in {"link", "sync", "publish"} /\ (step.op \in {"link", "publish"} => step.last_used = clock)
        /\ (step.op = "publish" => n = 3)
    BY <2>1 DEF PersistStep
  <2>3. ASSUME step.op = "publish"
        PROVE  /\ step.last_used # 0 /\ <<proc.v, step.last_used>> \in disk.blobs
               /\ \A f \in Of(disk, proc.v) : f.last_used <= step.last_used
    <3>0. PICK k \in Nat : k = Len(proc.io)
      BY <1>4
    <3>a. n = 3 /\ n = 1 + (4 - k)
      BY <2>1, <2>2, <2>3, <3>0
    <3>b. 3 = 1 + (4 - k)
      BY <3>a
    <3>c. \A m \in Nat : 3 = 1 + (4 - m) => m = 2
      OBVIOUS
    <3>1. Len(proc.io) = 2
      BY <3>0, <3>b, <3>c
    <3>2. clock # 0 /\ <<proc.v, clock>> \in disk.blobs
      BY <1>6, <3>1 DEF FilesInv, PersistInv, PersistOK
    <3> QED
      BY <2>2, <2>3, <3>2 DEF FilesInv, TimeInv, Of
  <2>4. OperationOK(disk, proc.v, step)
    BY <2>2, <2>3 DEF OperationOK
  <2> QED
    BY <1>1, <1>3, <1>6, <2>2, <2>4
<1>7. CASE proc.pc # "persisted"
  <2>1. SoundStep(disk, proc.v, proc.io, 1)
    BY <1>4, <1>7 DEF FilesInv, SoundInv, Sound
  <2>2. /\ step.op \notin {"link", "publish"}
        /\ step.op = "move" /\ step.to.intent = "Superseded" =>
             step.path.intent = "Restore" /\ Exists(disk, proc.v, Reference)
        /\ step.op = "move" /\ step.to.intent = "Restore" => step.path = Reference
        /\ step.op = "move" /\ step.to.intent = "Active" =>
             step.path.intent = "Restore" /\ ~Exists(disk, proc.v, Reference)
    BY <1>3, <2>1 DEF SoundStep
  <2>3. ASSUME step.op = "move"
        PROVE  MoveOK(disk, proc.v, step.path, step.to)
    <3>1. MovesLease(l, step) /\ LiveLease(step.lease) /\ step.to = PlaceOf(step.lease)
      BY <1>3, <2>3 DEF Sames, Ends, MovesLease, LiveLease
    <3>2. PICK n \in Lease : n = step.lease
      BY <1>5
    <3>3. step.to.intent \in Intent \cup {"Active"} /\ (step.to.intent = "Active" => step.to = Reference)
      BY <3>1, <3>2, PlaceIntent
    <3>4. \/ l = NoLease /\ step.path = Reference /\ proc.pc = "leasing"
          \/ LiveLease(l) /\ step.path = PlaceOf(l)
      BY <1>3, <3>1 DEF MovesLease
    <3>5. step.path.intent \in Intent \cup {"Active"}
      BY <3>4, PlaceIntent, PathFacts
    <3>6. ASSUME step.path.intent = "Active", NEW f \in Aside(disk, proc.v)
          PROVE  FALSE
      <4>1. LiveLease(l) /\ l.state = f.intent
        BY <1>2, <3>4, <3>6, AsideLease
      <4>2. f.intent # "Active"
        BY <3>6 DEF Aside
      <4>3. PlaceOf(l).intent # "Active" /\ l # NoLease
        BY <4>1, <4>2, PlaceIntent, LeaseFacts
      <4> QED
        BY <3>4, <3>6, <4>3
    <3>7. step.path.intent = "Active" => Aside(disk, proc.v) = {}
      BY <3>6
    <3> QED
      BY <2>2, <2>3, <3>3, <3>5, <3>7, PathFacts DEF MoveOK
  <2>4. ASSUME step.op = "remove", step.path.intent = "Active", NEW f \in Of(disk, proc.v), f.intent = "Superseded"
        PROVE  FALSE
    <3>1. Discards(l, proc.io)
      BY <1>2 DEF FilesInv, SoundInv
    <3>2. l.state = "Discard"
      BY <1>1, <1>3, <1>4, <2>4, <3>1, DiscardsTail DEF DiscardStep
    <3>3. f \in Aside(disk, proc.v) /\ LiveLease(l)
      BY <2>4, <3>2 DEF Aside, LiveLease
    <3> QED
      BY <1>2, <2>4, <3>2, <3>3, AsideLease
  <2>5. OperationOK(disk, proc.v, step)
    BY <2>2, <2>3, <2>4 DEF OperationOK
  <2> QED
    BY <1>1, <1>3, <2>2, <2>5
<1> QED
  BY <1>6, <1>7

LEMMA StartOperation ==
  ASSUME SessionInv, FilesInv, Starting, IoSucceeds, NEW step, step = Head(proc.io)
  PROVE  /\ step \in Step /\ step = proc.io[1] /\ CanDo(step) /\ step.op # "refuse"
         /\ step.op = "move" => step.to.intent # "Blob"
         /\ OperationOK(disk, proc.v, step) /\ step.op \notin {"link", "publish"}
<1>1. proc.io # <<>> /\ CanDo(step) /\ step.op # "refuse"
  BY DEF IoSucceeds, CanDo
<1>2. proc.io \in Seq(Step) /\ 1 \in 1 .. Len(proc.io) /\ step = proc.io[1] /\ step \in Step
  BY <1>1, Now, HeadFacts DEF CallType
<1>3. step.op = "move" => step.to = Reference
  BY <1>2 DEF SessionInv, ControlInv, MovesToRefs
<1>4. SoundStep(disk, proc.v, proc.io, 1)
  BY <1>2 DEF FilesInv, SoundInv, Sound, Starting
<1>5. /\ step.op \notin {"link", "publish"}
      /\ step.op = "move" => step.path.intent = "Restore" /\ ~Exists(disk, proc.v, Reference)
  BY <1>2, <1>3, <1>4, PathFacts DEF SoundStep
<1>6. step.op = "move" => MoveOK(disk, proc.v, step.path, step.to)
  BY <1>3, <1>5, PathFacts DEF MoveOK, Intent
<1>7. ASSUME step.op = "remove", step.path.intent = "Active", NEW f \in Of(disk, proc.v), f.intent = "Superseded"
      PROVE  FALSE
  <2>1. PICK v \in Sessions : v = proc.v
    BY Now
  <2>2. Marked(disk, v)
    BY <1>2, <1>7, <2>1 DEF FilesInv, SoundInv, StartDiscards
  <2>3. PICK g \in Of(disk, v) : g.intent = "Discard"
    BY <2>2 DEF Marked, Of
  <2>4. FilesOK(disk, v)
    BY <2>1, Now DEF FilesInv, FileInv, TypeInv, SessionInv
  <2> QED
    BY <1>7, <2>1, <2>3, <2>4 DEF FilesOK
<1>8. OperationOK(disk, proc.v, step)
  BY <1>5, <1>6, <1>7 DEF OperationOK
<1> QED
  BY <1>1, <1>2, <1>3, <1>5, <1>8, PathFacts

\* The files after an operation of a script: those there were, or one that moved or was written.
LEMMA EffectUsed ==
  ASSUME SessionInv, NEW step \in Step, CanDo(step), step.op # "refuse", step.op = "move" => step.to.intent # "Blob",
         NEW f \in Effect(step).files
  PROVE  \/ f \in disk.files
         \/ /\ step.op = "move" /\ f.session = proc.v /\ f.intent = step.to.intent
            /\ \E g \in disk.files : f.last_used = g.last_used
         \/ step.op = "publish" /\ f.session = proc.v /\ f.intent = "Active" /\ f.last_used = step.last_used
<1>1. /\ disk \in Namespace /\ IsFiniteSet(disk.files) /\ proc.v \in Sessions
      /\ step.path \in Paths /\ step.to \in Paths /\ step.last_used \in 0 .. MaxClock
      /\ step.op \in {"move", "remove", "sync", "link", "publish"}
  BY Now, DiskFacts DEF Step
<1>2. CASE step.op \in {"sync", "link"}
  BY <1>2, EffectFacts
<1>3. CASE step.op = "remove"
  BY <1>1, <1>3, EffectFacts, DropFacts
<1>4. CASE step.op = "publish"
  <2>1. Effect(step).files = (disk.files \ At(disk, proc.v, Reference)) \cup {Written(proc.v, Reference, step.last_used)}
    BY <1>1, <1>4, EffectFacts, PutFacts, PathFacts
  <2>2. PICK w : w = Written(proc.v, Reference, step.last_used)
    OBVIOUS
  <2>3. w.intent = "Active" /\ w.session = proc.v /\ w.last_used = step.last_used
    BY <2>2, PathFacts DEF Written
  <2> QED
    BY <1>4, <2>1, <2>2, <2>3
<1>5. CASE step.op = "move"
  <2>0. PICK n : n = Effect(step)
    OBVIOUS
  <2>1. PICK v \in Sessions : v = proc.v /\ n = Effect(step)
    BY <1>1, <2>0
  <2>2. PICK w : w = Written(v, step.to, LastUsed(disk, v, step.path))
    OBVIOUS
  <2>3. n = Put(Drop(disk, v, step.path), v, step.to, LastUsed(disk, v, step.path))
    BY <1>5, <2>1, EffectFacts
  <2>4. MovedTo(disk, n, v, step.path, w)
    BY <1>1, <1>5, <2>2, <2>3, MoveFiles
  <2>5. f.session # v => f \in disk.files
    BY <2>1, <2>4 DEF MovedTo, Of
  <2>6. f.session = v => f = w \/ f \in disk.files
    BY <2>1, <2>4 DEF MovedTo, Of
  <2>7. w.session = v /\ w.intent = step.to.intent /\ w.last_used = LastUsed(disk, v, step.path)
    BY <2>2 DEF Written
  <2>8. \E g \in disk.files : LastUsed(disk, v, step.path) = g.last_used
    <3>1. Exists(disk, v, step.path)
      BY <1>5, <2>1 DEF CanDo
    <3> QED
      BY <3>1 DEF LastUsed, Exists, At
  <2> QED
    BY <1>5, <2>1, <2>5, <2>6, <2>7, <2>8
<1> QED
  BY <1>1, <1>2, <1>3, <1>4, <1>5

\* An operation that does not restore the reference of a session does not bring it back.
LEMMA StaysGone ==
  ASSUME SessionInv, NEW step \in Step, CanDo(step), step.op \notin {"refuse", "publish"},
         step.op = "move" => step.to.intent # "Blob"
  PROVE  /\ step.op = "remove" => ~Exists(Effect(step), proc.v, step.path)
         /\ ~Exists(disk, proc.v, Reference) /\ ~(step.op = "move" /\ step.to.intent = "Active") =>
              ~Exists(Effect(step), proc.v, Reference)
<1>1. step.op = "remove" => ~Exists(Effect(step), proc.v, step.path)
  BY DiskFacts, EffectFacts, DropFacts
<1>2. ASSUME ~Exists(disk, proc.v, Reference), ~(step.op = "move" /\ step.to.intent = "Active"),
             NEW f \in At(Effect(step), proc.v, Reference)
      PROVE  FALSE
  <2>1. f \in Effect(step).files /\ f.session = proc.v /\ f.nonce = 0 /\ f.intent = "Active"
    BY <1>2, PathFacts DEF At
  <2>2. f \in disk.files
    BY <1>2, <2>1, EffectUsed
  <2> QED
    BY <1>2, <2>1, <2>2, PathFacts DEF Exists, At
<1> QED
  BY <1>1, <1>2 DEF Exists

LEMMA PersistTail ==
  ASSUME SessionInv, OneInv, FilesInv, IoSucceeds, proc.pc = "persisted"
  PROVE  PersistInv'
<1>1. PICK step : step = Head(proc.io)
  OBVIOUS
<1>2. ~Starting
  BY DEF Starting
<1>3. /\ step \in Step /\ step = proc.io[1] /\ CanDo(step) /\ step.op # "refuse"
      /\ step.op = "move" => step.to.intent # "Blob"
  BY <1>1, <1>2, ScriptOperation
<1>4. PICK c : c = proc'
  OBVIOUS
<1>5. /\ disk' = Effect(step) /\ c.v = proc.v /\ c.ok = proc.ok /\ c.io = Tail(proc.io) /\ clock' = clock
      /\ durable' = IF step.op = "sync" THEN SyncDirectory(step.path) ELSE durable \cup {disk'}
  BY <1>1, <1>3, <1>4, IoSucceedsTypes DEF IoSucceeds
<1>6. PersistOK(proc, clock) /\ clock # 0
  BY DEF FilesInv, PersistInv
<1>7. PICK io \in Seq(Step) : io = proc.io /\ io # <<>>
  BY Now DEF IoSucceeds, CallType
<1>8. PICK t : t = Tail(io)
  OBVIOUS
<1>9. /\ Len(io) \in Nat /\ Len(io) >= 1 /\ Len(t) = Len(io) - 1 /\ 1 \in 1 .. Len(io)
      /\ \A i \in 1 .. Len(t) : i + 1 \in 1 .. Len(io) /\ t[i] = io[i + 1]
  BY <1>7, <1>8, HeadFacts
<1>10. Len(io) <= 4 /\ \A i \in 1 .. Len(io) : PersistStep(io[i], i + (4 - Len(io)), clock)
  BY <1>6, <1>7 DEF PersistOK
<1>11. \A i \in 1 .. Len(t) : PersistStep(t[i], i + (4 - Len(t)), clock)
  <2> TAKE i \in 1 .. Len(t)
  <2>1. i + (4 - Len(t)) = (i + 1) + (4 - Len(io))
    BY <1>9
  <2> QED
    BY <1>9, <1>10, <2>1
<1>12. PICK k \in 1 .. 4 : k = Len(io) /\ k = Len(t) + 1
  <2>1. PICK n \in Nat : n = Len(io) /\ n >= 1 /\ n <= 4 /\ Len(t) = n - 1
    BY <1>9, <1>10
  <2>2. n \in 1 .. 4 /\ n = Len(t) + 1
    BY <2>1
  <2> QED
    BY <2>1, <2>2
<1>13. PersistStep(step, 5 - k, clock)
  <2>1. 1 + (4 - k) = 5 - k
    BY <1>12
  <2> QED
    BY <1>3, <1>7, <1>9, <1>10, <1>12, <2>1
<1>14. /\ k = 4 => step.op = "link" /\ step.last_used = clock
       /\ k = 3 => step.op = "sync" /\ step.path = Blobs
       /\ k = 2 => step.op = "publish" /\ step.last_used = clock
       /\ k = 1 => step.op = "sync" /\ step.path = Reference
  BY <1>12, <1>13 DEF PersistStep
<1>15. PICK v \in Sessions : v = proc.v
  BY Now
<1>16. Len(t) \in 1 .. 3 => <<v, clock>> \in disk'.blobs
  <2>1. CASE k = 4
    BY <1>3, <1>5, <1>14, <1>15, <2>1, EffectFacts
  <2>2. CASE k \in 2 .. 3
    <3>1. <<v, clock>> \in disk.blobs
      BY <1>6, <1>7, <1>12, <1>15, <2>2 DEF PersistOK
    <3>2. FilesOK(disk, v) /\ OperationOK(disk, proc.v, step)
      BY <1>1, <1>2, <1>15, Now, ScriptOperation DEF FilesInv, FileInv, SessionInv, TypeInv
    <3>3. disk.blobs \subseteq disk'.blobs
      BY <1>3, <1>5, <1>15, <3>2, OperationFiles
    <3> QED
      BY <3>1, <3>3
  <2>3. CASE k = 1
    BY <1>12, <2>3
  <2> QED
    BY <1>12, <2>1, <2>2, <2>3
<1>17. Len(t) \in {0, 1} => LastUsed(disk', v, Reference) = clock
  <2>1. CASE k = 2
    <3>1. disk' = Put(disk, v, Reference, clock)
      BY <1>3, <1>5, <1>14, <1>15, <2>1, EffectFacts
    <3>2. FilesOK(disk, v) /\ OperationOK(disk, proc.v, step) /\ step.op = "publish" /\ step.last_used = clock
      BY <1>1, <1>2, <1>14, <1>15, <2>1, Now, ScriptOperation DEF FilesInv, FileInv, SessionInv, TypeInv
    <3>3. <<v, clock>> \in disk.blobs /\ \A f \in Of(disk, v) : f.last_used <= clock
      BY <1>15, <3>2 DEF OperationOK
    <3>4. clock \in 0 .. MaxClock /\ disk \in Namespace /\ IsFiniteSet(disk.files)
      BY Now, DiskFacts DEF CountTypes
    <3> QED
      BY <1>6, <3>1, <3>2, <3>3, <3>4, PublishKeepsFiles
  <2>2. CASE k = 1
    <3>1. disk' = disk
      BY <1>3, <1>5, <1>14, <2>2, EffectFacts
    <3> QED
      BY <1>6, <1>7, <1>12, <1>15, <2>2, <3>1 DEF PersistOK
  <2>3. CASE k \in 3 .. 4
    <3>1. Len(t) = k - 1
      BY <1>9, <1>12
    <3> QED
      BY <2>3, <3>1
  <2> QED
    BY <1>12, <2>1, <2>2, <2>3
<1>18. Len(t) = 0 => \A ns \in durable' : Directory(ns, Reference) = Directory(disk', Reference)
  <2> SUFFICES ASSUME Len(t) = 0
               PROVE  \A ns \in durable' : Directory(ns, Reference) = Directory(disk', Reference)
    OBVIOUS
  <2>1. k = 1
    BY <1>12
  <2>2. disk' = disk /\ durable' = SyncDirectory(Reference)
    BY <1>3, <1>5, <1>14, <2>1, EffectFacts
  <2> QED
    BY <2>2 DEF SyncDirectory
<1>19. PersistOK(proc, clock)'
  <2>1. proc'.io = t /\ proc'.v = v
    BY <1>4, <1>5, <1>7, <1>8, <1>15
  <2>2. Len(t) <= 4
    BY <1>9, <1>10
  <2> QED
    BY <1>5, <1>11, <1>16, <1>17, <1>18, <2>1, <2>2 DEF PersistOK, SyncedDir
<1> QED
  BY <1>5, <1>6, <1>19 DEF PersistInv

LEMMA EmptySound ==
  ASSUME NEW ns, NEW s, NEW l
  PROVE  Sound(ns, s, <<>>) /\ Discards(l, <<>>) /\ StartDiscards(ns, s, <<>>)
<1>1. Len(<<>>) = 0
  BY EmptyFacts
<1> QED
  BY <1>1, RefuseSound DEF Discards, StartDiscards

\* An operation succeeds.
LEMMA IoSucceedsFiles ==
  ASSUME SessionInv, OneInv, FilesInv, IoSucceeds
  PROVE  FilesInv'
<1>1. PICK step : step = Head(proc.io)
  OBVIOUS
<1>2. /\ step \in Step /\ step = proc.io[1] /\ CanDo(step) /\ step.op # "refuse"
      /\ step.op = "move" => step.to.intent # "Blob"
      /\ OperationOK(disk, proc.v, step)
      /\ step.op \in {"link", "publish"} => proc.pc = "persisted" /\ step.last_used = clock
  BY <1>1, ScriptOperation, StartOperation
<1>3. /\ disk' = Effect(step) /\ proc'.v = proc.v /\ proc'.ok = proc.ok /\ proc'.io = Tail(proc.io)
      /\ proc'.lease = step.lease /\ proc'.pc = proc.pc /\ clock' = clock
  BY <1>1, <1>2, IoSucceedsTypes
<1>4. FileInv'
  BY <1>1, <1>2, OperationFileInv DEF FilesInv
<1>5. PICK io \in Seq(Step) : io = proc.io /\ io # <<>>
  BY Now DEF IoSucceeds, CallType
<1>6. TimeInv'
  <2>1. ~Starting => \A f \in disk.files : f.last_used <= clock
    BY DEF FilesInv, TimeInv
  <2>2. ASSUME ~Starting, NEW f \in Effect(step).files
        PROVE  f.last_used <= clock
    <3>1. f \in disk.files \/ (\E g \in disk.files : f.last_used = g.last_used)
          \/ (step.op = "publish" /\ f.last_used = step.last_used)
      BY <1>2, <2>2, EffectUsed
    <3>2. clock <= clock
      BY Now DEF CountTypes
    <3> QED
      BY <1>2, <2>1, <2>2, <3>1, <3>2
  <2>3. ~Starting' => ~Starting
    BY <1>3 DEF Starting
  <2> QED
    BY <1>3, <2>2, <2>3 DEF TimeInv
<1>7. SoundInv'
  <2>1. PICK v \in Sessions : v = proc.v
    BY Now
  <2>2. proc.pc # "persisted" => Sound(disk', v, Tail(io))
    <3> SUFFICES ASSUME proc.pc # "persisted"
                 PROVE  Sound(disk', v, Tail(io))
      OBVIOUS
    <3>1. Sound(disk, v, io) /\ step.op # "publish"
      BY <1>2, <1>5, <2>1 DEF FilesInv, SoundInv
    <3>2. /\ step.op = "remove" /\ step.path = Reference => ~Exists(disk', v, Reference)
          /\ ~Exists(disk, v, Reference) /\ ~(step.op = "move" /\ step.to.intent = "Active") =>
               ~Exists(disk', v, Reference)
      BY <1>2, <1>3, <2>1, <3>1, StaysGone
    <3>3. PICK n : n = disk'
      OBVIOUS
    <3>4. Sound(n, v, Tail(io))
      BY <1>2, <1>5, <3>1, <3>2, <3>3, SoundTail
    <3> QED
      BY <3>3, <3>4
  <2>3. ~Starting => Discards(step.lease, Tail(io))
    BY <1>2, <1>5, DiscardsTail DEF FilesInv, SoundInv
  <2>4. Starting => StartDiscards(disk', v, Tail(io))
    <3> SUFFICES ASSUME Starting
                 PROVE  StartDiscards(disk', v, Tail(io))
      OBVIOUS
    <3>1. \A i \in 1 .. Len(io) : io[i].op = "remove" /\ io[i].path.intent = "Active" => i = 1
      BY <1>5 DEF FilesInv, SoundInv, StartDiscards
    <3>2. \A i \in 1 .. Len(Tail(io)) : i + 1 \in 1 .. Len(io) /\ Tail(io)[i] = io[i + 1] /\ i + 1 # 1
      BY <1>5, HeadFacts
    <3> QED
      BY <3>1, <3>2 DEF StartDiscards
  <2>5. Starting' <=> Starting
    BY <1>3 DEF Starting
  <2> QED
    BY <1>3, <1>5, <2>1, <2>2, <2>3, <2>4, <2>5 DEF SoundInv
<1>8. PersistInv'
  <2>1. CASE proc.pc = "persisted"
    BY <2>1, PersistTail
  <2>2. CASE proc.pc # "persisted"
    BY <1>3, <2>2 DEF PersistInv
  <2> QED
    BY <2>1, <2>2
<1> QED
  BY <1>4, <1>6, <1>7, <1>8 DEF FilesInv

\* A call that has no script left.
LEMMA NoScriptFiles ==
  ASSUME SessionInv, FilesInv, UNCHANGED <<disk, durable>>, NEW c, c = proc', c.io = <<>>,
         c.pc = "persisted" => proc.pc = "persisted" /\ clock' = clock /\ ~c.ok,
         c.pc \notin StartPcs => \A f \in disk.files : f.last_used <= clock'
  PROVE  FilesInv'
<1>1. FileInv'
  BY DEF FilesInv, FileInv
<1>2. TimeInv'
  BY DEF TimeInv, Starting
<1>3. Sound(disk', c.v, c.io) /\ Discards(c.lease, c.io) /\ StartDiscards(disk', c.v, c.io)
  <2>1. PICK n, v, l : n = disk' /\ v = c.v /\ l = c.lease
    OBVIOUS
  <2> QED
    BY <2>1, EmptySound
<1>4. SoundInv'
  BY <1>3 DEF SoundInv
<1>5. PersistInv'
  <2> SUFFICES ASSUME c.pc = "persisted"
               PROVE  clock' # 0 /\ PersistOK(proc, clock)'
    BY DEF PersistInv
  <2>1. clock # 0 /\ clock' = clock /\ ~c.ok
    BY DEF FilesInv, PersistInv
  <2>2. Len(c.io) = 0
    BY EmptyFacts
  <2> QED
    BY <2>1, <2>2 DEF PersistOK
<1> QED
  BY <1>1, <1>2, <1>4, <1>5 DEF FilesInv

LEMMA IoFailsFiles ==
  ASSUME SessionInv, FilesInv, IoFails
  PROVE  FilesInv'
<1>1. PICK c : c = proc'
  OBVIOUS
<1>2. c.io = <<>> /\ ~c.ok /\ c.pc = proc.pc /\ UNCHANGED <<disk, durable, clock>>
  BY <1>1, Now DEF IoFails, CallType
<1>3. c.pc \notin StartPcs => \A f \in disk.files : f.last_used <= clock'
  BY <1>2 DEF FilesInv, TimeInv, Starting
<1> QED
  BY <1>1, <1>2, <1>3, NoScriptFiles

\* The process starts again on what it or a power loss left.
LEMMA NewProcessFiles ==
  ASSUME SessionInv, FilesInv, Crash \/ Panic
  PROVE  FilesInv'
<1>1. PICK c : c = proc' /\ c = [Idle EXCEPT !.pc = "recover"]
  BY DEF Crash, Panic, Start
<1>2. c.io = <<>> /\ c.pc = "recover"
  BY <1>1, IdleFacts DEF CallType
<1>3. durable' \subseteq durable
  BY DEF Crash, Panic
<1>4. FileInv'
  BY <1>3 DEF FilesInv, FileInv
<1>5. TimeInv' /\ PersistInv'
  BY <1>1, <1>2 DEF TimeInv, PersistInv, Starting
<1>6. Sound(disk', c.v, c.io) /\ Discards(c.lease, c.io) /\ StartDiscards(disk', c.v, c.io)
  <2>1. PICK n, v, l : n = disk' /\ v = c.v /\ l = c.lease
    OBVIOUS
  <2> QED
    BY <1>2, <2>1, EmptySound
<1>7. SoundInv'
  BY <1>1, <1>6 DEF SoundInv
<1> QED
  BY <1>4, <1>5, <1>7 DEF FilesInv

LEMMA RecoverQuarantineFiles ==
  ASSUME SessionInv, FilesInv, RecoverQuarantine
  PROVE  FilesInv'
<1>1. PICK c : c = proc'
  OBVIOUS
<1>2. proc.pc = "recover" /\ UNCHANGED <<disk, durable, clock>>
  BY DEF RecoverQuarantine, Reached, disk_vars
<1>3. FileInv' /\ \A s \in Sessions : FilesOK(disk, s)
  BY <1>2, Now DEF FilesInv, FileInv, TypeInv
<1>4. c.pc \in StartPcs /\ Sound(disk, c.v, c.io) /\ StartDiscards(disk, c.v, c.io)
  <2>1. CASE \E f \in OfIntent(NextIntent) :
               proc' = [proc EXCEPT !.v = f.session, !.io = RecoverReference(f), !.ok = TRUE]
    <3>1. PICK f \in OfIntent(NextIntent) :
               proc' = [proc EXCEPT !.v = f.session, !.io = RecoverReference(f), !.ok = TRUE]
      BY <2>1
    <3>2. f \in disk.files /\ f.intent # "Active"
      BY <3>1 DEF OfIntent, NextIntent
    <3>3. f.session \in Sessions
      BY <3>2, DiskFacts DEF Namespace, StoredFile
    <3>4. c.pc = "recover" /\ c.v = f.session /\ c.io = RecoverReference(f)
      BY <1>1, <1>2, <3>1, Now DEF CallType
    <3> QED
      BY <1>3, <3>2, <3>3, <3>4, RecoverSound
  <2>2. CASE proc' = Call("load", NoLease, <<Sync(Reference, NoLease), Sync(Quarantine(0, "Restore"), NoLease)>>)
    <3>1. PICK a \in Step, b \in Step : /\ a = Sync(Reference, NoLease) /\ b = Sync(Quarantine(0, "Restore"), NoLease)
                                        /\ a.op = "sync" /\ b.op = "sync"
      <4>1. 0 \in Nat /\ "Restore" \in Intent
        BY DEF Intent
      <4> QED
        BY <4>1, StepFacts, PathFacts, LeaseFacts
    <3>2. PICK io : io = <<a, b>>
      OBVIOUS
    <3>3. io \in Seq(Step) /\ Len(io) = 2 /\ \A i \in 1 .. Len(io) : io[i].op = "sync"
      BY <3>1, <3>2
    <3>4. LooseScript(io) /\ StartDiscards(disk, c.v, io)
      BY <3>3 DEF LooseScript, Loose, StartDiscards
    <3>5. c.pc = "load" /\ c.io = io
      BY <1>1, <2>2, <3>1, <3>2, CallScripted
    <3> QED
      BY <3>4, <3>5, LooseSound
  <2> QED
    BY <2>1, <2>2 DEF RecoverQuarantine
<1>5. SoundInv' /\ TimeInv' /\ PersistInv'
  BY <1>1, <1>2, <1>4 DEF SoundInv, TimeInv, PersistInv, Starting
<1> QED
  BY <1>3, <1>5 DEF FilesInv

\* The clock of a new process is not behind any file.
LEMMA LoadSessionArchivesFiles ==
  ASSUME SessionInv, FilesInv, LoadSessionArchives
  PROVE  FilesInv'
<1>1. PICK c : c = proc'
  OBVIOUS
<1>2. proc.pc = "load" /\ UNCHANGED <<disk, durable>> /\ Starting
  BY DEF LoadSessionArchives, Reached, disk_vars, Starting
<1>3. CASE ~proc.ok
  <2>1. c.pc = "recover" /\ c.io = <<>>
    <3>1. c = Call("recover", NoLease, <<>>)
      BY <1>1, <1>3 DEF LoadSessionArchives
    <3> QED
      BY <3>1, CallScripted
  <2> QED
    BY <1>1, <1>2, <2>1, NoScriptFiles
<1>4. CASE proc.ok
  <2>1. PICK used : used = [s \in Sessions |-> LastUsed(disk, s, Reference)]
    OBVIOUS
  <2>2. used \in [Sessions -> 0 .. MaxClock]
    <3>1. \A s \in Sessions : LastUsed(disk, s, Reference) \in 0 .. MaxClock
      BY DiskFacts, LastUsedFacts
    <3> QED
      BY <2>1, <3>1
  <2>3. /\ clock' = CHOOSE d \in {0} \cup {used[s] : s \in Sessions} : \A s \in Sessions : used[s] <= d
        /\ c = Idle
    BY <1>1, <1>4, <2>1 DEF LoadSessionArchives
  <2>4. \A s \in Sessions : used[s] <= clock'
    BY <2>2, <2>3, StartClock
  <2>5. ASSUME NEW f \in disk.files
        PROVE  f.last_used <= clock'
    <3>1. f.intent = "Active"
      BY <1>2, StartNow
    <3>2. PICK s \in Sessions : s = f.session /\ f \in Of(disk, s) /\ FilesOK(disk, s)
      BY Now, DiskFacts DEF Namespace, StoredFile, FilesInv, FileInv, TypeInv, Of
    <3>3. used[s] = f.last_used
      BY <2>1, <3>1, <3>2, ActiveFacts
    <3> QED
      BY <2>4, <3>3
  <2>6. c.io = <<>> /\ c.pc = "idle"
    BY <2>3, IdleFacts
  <2> QED
    BY <1>1, <1>2, <2>5, <2>6, NoScriptFiles
<1> QED
  BY <1>3, <1>4, Now

\* The server's own steps, and the session clock they may tick.
LEMMA ControlTicks ==
  ASSUME ServerStep \/ StoreControl \/ Request
  PROVE  ~Starting /\ clock' \in {clock, clock + 1}
<1>1. CASE StoreControl
  BY <1>1 DEF StoreControl, TakeRecoveryLease, Resolved, LeaseActive, Leasing, Unleasing, DiscardSession,
     Discarded, Starting, Reached
<1>2. CASE Request
  BY <1>2 DEF Request, LeaseContinueSession, LeaseForkSession, PersistChatSession, RetainFailedSession,
     DiscardStoredSession, Starting
<1>3. CASE ContinueCold \/ AttachResidentSession \/ WakeHibernatedSession \/ FinishWake \/ FinishWakeError
           \/ PersistedMetadata \/ RestorePersisted \/ ReferenceRestored
  BY <1>3 DEF ContinueCold, AttachResidentSession, WakeHibernatedSession, FinishWake, FinishWakeError,
     PersistedMetadata, RestorePersisted, ReferenceRestored, Starting, Reached
<1>4. CASE Persisted \/ Retired \/ RetainedSession \/ TaskDiscarded \/ Respond
  BY <1>4 DEF Persisted, Retired, RetainedSession, TaskDiscarded, Respond, Starting, Reached
<1>5. CASE Fit \/ FitContinues \/ HibernateStored \/ StoreHibernated \/ RestoreFailedHibernation
  BY <1>5 DEF Fit, FitContinues, HibernateStored, StoreHibernated, RestoreFailedHibernation, Starting, Reached
<1> QED
  BY <1>1, <1>2, <1>3, <1>4, <1>5 DEF ServerStep

LEMMA ScriptedFiles ==
  ASSUME SessionInv, FilesInv, SessionInv', UNCHANGED <<disk, durable>>, ~Starting, clock' \in {clock, clock + 1},
         Scripted(proc')
  PROVE  FilesInv'
<1>1. PICK c : c = proc'
  OBVIOUS
<1>2. c \in CallType /\ c.lease \in Lease /\ c.v \in Sessions
  BY <1>1 DEF SessionInv, TypeInv, CallType
<1>3. Sound(disk, c.v, c.io) /\ Discards(c.lease, c.io) /\ c.pc \notin StartPcs \cup {"persisted"}
  BY <1>1, <1>2, ScriptedSound DEF Scripted
<1>4. SoundInv' /\ PersistInv'
  BY <1>1, <1>3 DEF SoundInv, PersistInv, Starting
<1>5. TimeInv'
  <2>1. ASSUME NEW f \in disk.files
        PROVE  f.last_used <= clock'
    <3>1. f.last_used \in Nat /\ f.last_used <= clock /\ clock \in Nat
      BY Now, DiskFacts, StoreAssumption DEF Namespace, StoredFile, FilesInv, TimeInv, CountTypes
    <3> QED
      BY <3>1
  <2> QED
    BY <2>1 DEF TimeInv
<1>6. FileInv'
  BY DEF FilesInv, FileInv
<1> QED
  BY <1>4, <1>5, <1>6 DEF FilesInv

LEMMA PersistSteps ==
  ASSUME NEW t \in 0 .. MaxClock, NEW io, io = Persist(t)
  PROVE  /\ io \in Seq(Step) /\ Len(io) = 4 /\ \A i \in 1 .. 4 : PersistStep(io[i], i, t)
         /\ \A i \in 1 .. 4 : io[i].lease = NoLease /\ io[i].op # "remove"
<1>1. /\ io \in Seq(Step) /\ Len(io) = 4
      /\ io[1] = Do("link", Blobs, Blobs, t, NoLease) /\ io[2] = Sync(Blobs, NoLease)
      /\ io[3] = Do("publish", Reference, Reference, t, NoLease) /\ io[4] = Sync(Reference, NoLease)
  BY PersistFacts
<1>2. /\ io[1].op = "link" /\ io[1].last_used = t /\ io[1].lease = NoLease
      /\ io[2].op = "sync" /\ io[2].path = Blobs /\ io[2].lease = NoLease
      /\ io[3].op = "publish" /\ io[3].last_used = t /\ io[3].lease = NoLease
      /\ io[4].op = "sync" /\ io[4].path = Reference /\ io[4].lease = NoLease
  BY <1>1 DEF Do, Sync
<1>3. ASSUME NEW i \in 1 .. 4
      PROVE  PersistStep(io[i], i, t) /\ io[i].lease = NoLease /\ io[i].op # "remove"
  <2>1. i = 1 \/ i = 2 \/ i = 3 \/ i = 4
    OBVIOUS
  <2> QED
    BY <1>2, <2>1 DEF PersistStep
<1> QED
  BY <1>1, <1>3

LEMMA PersistChatSessionFiles ==
  ASSUME SessionInv, FilesInv, NEW s \in Sessions, PersistChatSession(s)
  PROVE  FilesInv'
<1>1. PICK c, io : c = proc' /\ io = Persist(clock + 1)
  OBVIOUS
<1>2. /\ proc.pc = "idle" /\ clock' = clock + 1 /\ UNCHANGED <<disk, durable>> /\ clock + 1 < MaxClock
      /\ c = [Begin("persisted", "finish", "none", s, NoLease) EXCEPT !.io = Persist(clock + 1)]
  BY <1>1 DEF PersistChatSession, disk_vars
<1>3. c.pc = "persisted" /\ c.io = io /\ c.v = s /\ c.lease = NoLease
  BY <1>1, <1>2 DEF Begin, Enter
<1>4. clock \in Nat /\ clock + 1 \in 0 .. MaxClock /\ clock + 1 # 0
  BY <1>2, Now, StoreAssumption DEF CountTypes
<1>5. PICK t \in 0 .. MaxClock : t = clock + 1
  BY <1>4
<1>6. /\ io \in Seq(Step) /\ Len(io) = 4 /\ \A i \in 1 .. 4 : PersistStep(io[i], i, t)
      /\ \A i \in 1 .. 4 : io[i].lease = NoLease /\ io[i].op # "remove"
  BY <1>1, <1>5, PersistSteps
<1>7. PersistOK(proc, clock)'
  <2>1. \A i \in 1 .. 4 : PersistStep(io[i], i + (4 - 4), t)
    <3>1. \A i \in 1 .. 4 : i + (4 - 4) = i
      OBVIOUS
    <3> QED
      BY <1>6, <3>1
  <2>2. proc'.io = io /\ Len(io) = 4 /\ clock' = t /\ Len(io) \notin 0 .. 3 /\ Len(io) \notin {0, 1}
    BY <1>1, <1>2, <1>3, <1>5, <1>6
  <2> QED
    BY <2>1, <2>2 DEF PersistOK
<1>8. Discards(NoLease, io)
  <2>1. ASSUME NEW i \in 1 .. 4
        PROVE  DiscardStep(Before(NoLease, io, i), io[i])
    BY <1>6, LeaseFacts DEF DiscardStep
  <2> QED
    BY <1>6, <2>1 DEF Discards
<1>9. SoundInv' /\ PersistInv'
  BY <1>1, <1>2, <1>3, <1>4, <1>7, <1>8 DEF SoundInv, PersistInv, Starting
<1>10. TimeInv'
  <2>1. ASSUME NEW f \in disk.files
        PROVE  f.last_used <= clock'
    <3>1. f.last_used \in Nat /\ f.last_used <= clock
      BY <1>2, Now, DiskFacts, StoreAssumption DEF Namespace, StoredFile, FilesInv, TimeInv, CountTypes, Starting
    <3> QED
      BY <1>2, <1>4, <3>1
  <2> QED
    BY <1>2, <2>1 DEF TimeInv
<1>11. FileInv'
  BY <1>2 DEF FilesInv, FileInv
<1> QED
  BY <1>9, <1>10, <1>11 DEF FilesInv

LEMMA NextFilesInv ==
  ASSUME ForkParents = {}
  PROVE  SessionInv /\ SessionInv' /\ OneInv /\ FilesInv /\ [Next]_vars => FilesInv'
<1> SUFFICES ASSUME SessionInv, SessionInv', OneInv, FilesInv, [Next]_vars
             PROVE  FilesInv'
  OBVIOUS
<1>1. CASE IoSucceeds \/ IoFails
  BY <1>1, IoSucceedsFiles, IoFailsFiles
<1>2. CASE Crash \/ Panic \/ RecoverQuarantine \/ LoadSessionArchives
  BY <1>2, NewProcessFiles, RecoverQuarantineFiles, LoadSessionArchivesFiles
<1>3. CASE ServerStep \/ StoreControl \/ Request
  <2>1. UNCHANGED <<disk, durable>> /\ ~Starting /\ clock' \in {clock, clock + 1}
    BY <1>3, ControlTicks, ServerStepFlows, StoreControlFlows, RequestFlows DEF LeaseFlow
  <2>2. Persisted /\ proc.ok => Exists(disk, proc.v, Reference)
    <3> SUFFICES ASSUME Persisted, proc.ok
                 PROVE  Exists(disk, proc.v, Reference)
      OBVIOUS
    <3>1. proc.pc = "persisted" /\ proc.io = <<>> /\ Len(<<>>) = 0
      BY EmptyFacts DEF Persisted, Reached
    <3>2. clock # 0 /\ LastUsed(disk, proc.v, Reference) = clock
      BY <3>1 DEF FilesInv, PersistInv, PersistOK
    <3> QED
      BY <3>2 DEF LastUsed
  <2>3. CASE ServerStep
    BY <2>1, <2>2, <2>3, ServerStepScripted, ScriptedFiles
  <2>4. CASE StoreControl
    BY <2>1, <2>4, StoreControlScripted, ScriptedFiles
  <2>5. CASE Request
    <3>1. PICK s \in Sessions : \/ LeaseContinueSession(s) \/ LeaseForkSession(s)
                                \/ PersistChatSession(s) \/ RetainFailedSession(s)
                                \/ \E why \in {"cancelled", "ended"} : DiscardStoredSession(s, why)
      BY <2>5 DEF Request
    <3>2. ~LeaseForkSession(s)
      BY DEF LeaseForkSession
    <3>3. CASE PersistChatSession(s)
      BY <3>3, PersistChatSessionFiles
    <3>4. CASE LeaseContinueSession(s) \/ RetainFailedSession(s)
               \/ \E why \in {"cancelled", "ended"} : DiscardStoredSession(s, why)
      BY <2>1, <3>4, RequestScripted, ScriptedFiles
    <3> QED
      BY <3>1, <3>2, <3>3, <3>4
  <2> QED
    BY <1>3, <2>3, <2>4, <2>5
<1>4. CASE UNCHANGED vars
  BY <1>4 DEF vars, FilesInv, FileInv, TimeInv, SoundInv, PersistInv, PersistOK, SyncedDir, Starting
<1> QED
  BY <1>1, <1>2, <1>3, <1>4 DEF Next, StoreStep, StoreControl

LEMMA InitFilesInv == Init => FilesInv
<1> SUFFICES ASSUME Init
             PROVE  FilesInv
  OBVIOUS
<1>1. disk.files = {} /\ durable = {disk}
  BY DEF Init
<1>2. FileInv /\ TimeInv
  BY <1>1 DEF FileInv, FilesOK, Of, TimeInv
<1>3. proc.pc = "idle" /\ proc.io = <<>>
  BY IdleFacts DEF Init
<1>4. SoundInv /\ PersistInv
  BY <1>3, EmptySound DEF SoundInv, PersistInv, Starting
<1> QED
  BY <1>2, <1>4 DEF FilesInv

LEMMA FilesInvAlways ==
  ASSUME ForkParents = {}
  PROVE  Spec => [](SessionInv /\ OneInv /\ FilesInv)
<1>1. Init => SessionInv /\ OneInv /\ FilesInv
  BY InitSessionInv, InitOneInv, InitFilesInv
<1>2. SessionInv /\ OneInv /\ FilesInv /\ [Next]_vars => (SessionInv /\ OneInv /\ FilesInv)'
  BY NextSessionInv, NextOneInv, NextFilesInv
<1> QED
  BY <1>1, <1>2, PTL DEF Spec

\* While no running session is forked, the next start succeeds whenever the machine stops:
\* recover_superseded_reference finds the replacement of every superseded reference, and
\* reconcile_existing_reference an active reference no older than the quarantined one, for
\* any sessions, limits, failed file operations and power losses.
THEOREM StartIsNeverRefused ==
  ASSUME ForkParents = {}
  PROVE  Spec => []StartNeverRefused
<1>1. SessionInv /\ FilesInv => StartNeverRefused
  <2> SUFFICES ASSUME SessionInv, FilesInv, NEW ns \in durable, NEW f \in ns.files,
                      f.intent \in {"Superseded", "Restore"}
               PROVE  IF f.intent = "Superseded" \/ Exists(ns, f.session, Reference)
                      THEN Replaces(ns, f.session, f.last_used)
                      ELSE Restorable(ns, f.session) = {f}
    BY DEF StartNeverRefused
  <2>1. ns \in Namespace
    BY DEF SessionInv, TypeInv
  <2>2. PICK s \in Sessions : s = f.session /\ f \in Of(ns, s) /\ FilesOK(ns, s)
    BY <2>1 DEF Namespace, StoredFile, FilesInv, FileInv, Of
  <2>3. CASE Exists(ns, s, Reference)
    <3>1. PICK g \in Of(ns, s) : g.intent = "Active" /\ LastUsed(ns, s, Reference) = g.last_used
      BY <2>2, <2>3, ActiveFacts
    <3>2. f.last_used <= g.last_used /\ <<s, g.last_used>> \in ns.blobs
      BY <2>2, <3>1 DEF FilesOK
    <3>3. f.last_used \in Int /\ g.last_used \in Int
      BY <2>1, <2>2, <3>1 DEF Namespace, StoredFile, Of
    <3>4. Replaces(ns, s, f.last_used)
      BY <3>1, <3>2, <3>3 DEF Replaces
    <3> QED
      BY <2>2, <2>3, <3>4
  <2>4. CASE ~Exists(ns, s, Reference)
    <3>1. f.intent = "Restore"
      BY <2>2, <2>4 DEF FilesOK
    <3>2. \A g \in Of(ns, s) : g.intent = "Restore" => g = f
      BY <2>2, <3>1 DEF FilesOK
    <3>3. Restorable(ns, s) = {f}
      BY <2>2, <3>1, <3>2 DEF Restorable, Of
    <3> QED
      BY <2>2, <2>4, <3>1, <3>3
  <2> QED
    BY <2>3, <2>4
<1> QED
  BY <1>1, FilesInvAlways, PTL

-----------------------------------------------------------------------------
(* The reference that a start on these files loads *)

\* The file that a start loads unless the session is marked for discard.
Latest(ns, s, f) ==
  /\ f \in Of(ns, s) /\ f.intent \in {"Active", "Restore"}
  /\ f.intent = "Active" \/ \A g \in Of(ns, s) : g.intent # "Active"

LEMMA MarkedOf ==
  ASSUME NEW ns, NEW s
  PROVE  /\ Marked(ns, s) <=> \E f \in Of(ns, s) : f.intent = "Discard"
         /\ Restorable(ns, s) = {f \in Of(ns, s) : f.intent = "Restore"}
BY DEF Marked, Of, Restorable

LEMMA RecoveredFacts ==
  ASSUME NEW ns \in Namespace, NEW s \in Sessions, FilesOK(ns, s)
  PROVE  /\ Marked(ns, s) => Recovered(ns, s) = 0
         /\ Of(ns, s) = {} => Recovered(ns, s) = 0
         /\ \A f : Latest(ns, s, f) /\ ~Marked(ns, s) => Recovered(ns, s) = f.last_used /\ f.last_used # 0
         /\ Marked(ns, s) \/ Of(ns, s) = {} \/ \E f : Latest(ns, s, f)
<1>1. Marked(ns, s) => Recovered(ns, s) = 0
  BY DEF Recovered
<1>2. ASSUME Of(ns, s) = {} PROVE Recovered(ns, s) = 0
  <2>1. ~Marked(ns, s) /\ Restorable(ns, s) = {}
    BY <1>2, MarkedOf
  <2>2. ~Exists(ns, s, Reference)
    BY <1>2, ActiveFacts
  <2> QED
    BY <2>1, <2>2 DEF Recovered
<1>3. ASSUME NEW f, Latest(ns, s, f), ~Marked(ns, s)
      PROVE  Recovered(ns, s) = f.last_used /\ f.last_used # 0
  <2>0. f.last_used # 0
    BY <1>3 DEF FilesOK, Latest
  <2>1. CASE f.intent = "Active"
    <3>1. Exists(ns, s, Reference) /\ LastUsed(ns, s, Reference) = f.last_used
      BY <1>3, <2>1, ActiveFacts DEF Latest
    <3> QED
      BY <1>3, <2>0, <3>1 DEF Recovered
  <2>2. CASE f.intent # "Active"
    <3>1. ~Exists(ns, s, Reference) /\ f.intent = "Restore"
      BY <1>3, <2>2, ActiveFacts DEF Latest
    <3>2. Restorable(ns, s) = {f}
      BY <1>3, <3>1, MarkedOf DEF Latest, FilesOK
    <3>3. PICK c : c = CHOOSE g \in Restorable(ns, s) : \A h \in Restorable(ns, s) : h.last_used <= g.last_used
      OBVIOUS
    <3>4. f.last_used \in Int
      BY <1>3, StoreAssumption DEF Latest, Of, Namespace, StoredFile
    <3>5. c = f
      BY <3>2, <3>3, <3>4
    <3>6. Recovered(ns, s) = c.last_used
      BY <1>3, <3>1, <3>2, <3>3 DEF Recovered
    <3> QED
      BY <2>0, <3>5, <3>6
  <2> QED
    BY <2>1, <2>2
<1>4. ASSUME ~Marked(ns, s), NEW g \in Of(ns, s)
      PROVE  \E f : Latest(ns, s, f)
  <2>1. g.intent \in {"Active", "Restore", "Superseded"}
    BY <1>4, MarkedOf DEF Of, Namespace, StoredFile, Intent
  <2>2. CASE \E f \in Of(ns, s) : f.intent = "Active"
    BY <2>2 DEF Latest
  <2>3. CASE ~\E f \in Of(ns, s) : f.intent = "Active"
    <3>1. g.intent # "Superseded"
      BY <1>4, <2>3, ActiveFacts DEF FilesOK
    <3> QED
      BY <1>4, <2>1, <2>3, <3>1 DEF Latest
  <2> QED
    BY <2>2, <2>3
<1> QED
  BY <1>1, <1>2, <1>3, <1>4

\* What a start loads is a number, and none exactly when there is nothing to load.
LEMMA RecoveredLost ==
  ASSUME NEW ns \in Namespace, NEW s \in Sessions, FilesOK(ns, s)
  PROVE  /\ Recovered(ns, s) \in Nat
         /\ Recovered(ns, s) = 0 <=> Marked(ns, s) \/ Of(ns, s) = {}
         /\ Recovered(ns, s) # 0 => <<s, Recovered(ns, s)>> \in ns.blobs
         /\ Recovered(ns, s) # 0 => \E f \in Of(ns, s) : Recovered(ns, s) = f.last_used
<1>1. CASE Marked(ns, s) \/ Of(ns, s) = {}
  BY <1>1, RecoveredFacts
<1>2. CASE ~(Marked(ns, s) \/ Of(ns, s) = {})
  <2>1. PICK f : Latest(ns, s, f)
    BY <1>2, RecoveredFacts
  <2>2. Recovered(ns, s) = f.last_used /\ f.last_used # 0
    BY <1>2, <2>1, RecoveredFacts
  <2>3. f \in Of(ns, s) /\ f.last_used \in 0 .. MaxClock
    BY <2>1 DEF Latest, Of, Namespace, StoredFile
  <2>4. <<s, f.last_used>> \in ns.blobs
    BY <2>3 DEF FilesOK
  <2>5. f.last_used \in Nat
    BY <2>3, StoreAssumption
  <2> QED
    BY <1>2, <2>2, <2>3, <2>4, <2>5
<1> QED
  BY <1>1, <1>2

LEMMA SameRecovered ==
  ASSUME NEW a, NEW b, NEW s, Of(a, s) = Of(b, s)
  PROVE  Recovered(a, s) = Recovered(b, s) /\ (Marked(a, s) <=> Marked(b, s))
         /\ (Exists(a, s, Reference) <=> Exists(b, s, Reference))
<1>1. (Marked(a, s) <=> Marked(b, s)) /\ Restorable(a, s) = Restorable(b, s)
  BY MarkedOf
<1>2. At(a, s, Reference) = At(b, s, Reference)
  <2>1. /\ At(a, s, Reference) = {f \in Of(a, s) : f.nonce = Reference.nonce /\ f.intent = Reference.intent}
        /\ At(b, s, Reference) = {f \in Of(b, s) : f.nonce = Reference.nonce /\ f.intent = Reference.intent}
    BY DEF At, Of
  <2> QED
    BY <2>1
<1>3. (Exists(a, s, Reference) <=> Exists(b, s, Reference))
      /\ LastUsed(a, s, Reference) = LastUsed(b, s, Reference)
  BY <1>2 DEF Exists, LastUsed
<1> QED
  BY <1>1, <1>3 DEF Recovered

\* A reference that moves, other than to be discarded, is loaded as before.
LEMMA MoveRecovered ==
  ASSUME NEW ns \in Namespace, NEW ns2 \in Namespace, NEW s \in Sessions, NEW from, NEW to, NEW w,
         FilesOK(ns, s), FilesOK(ns2, s), Exists(ns, s, from),
         w.intent = to.intent, w.nonce = to.nonce, w.last_used = LastUsed(ns, s, from),
         MovedTo(ns, ns2, s, from, w), MoveOK(ns, s, from, to)
  PROVE  /\ to.intent # "Discard" =>
              Recovered(ns2, s) = Recovered(ns, s) /\ ~Marked(ns2, s) /\ ~Marked(ns, s)
         /\ to.intent = "Discard" => Marked(ns2, s) /\ Recovered(ns2, s) = 0
<1>1. PICK g \in At(ns, s, from) : w.last_used = g.last_used /\ g \in Of(ns, s) /\ g.intent = from.intent
  BY AtFacts DEF Exists
<1>2. At(ns, s, from) = {g} /\ w \in Of(ns2, s)
  BY <1>1, AtFacts DEF MovedTo
<1>3. \A f \in Of(ns2, s) : f = w \/ (f \in Of(ns, s) /\ f # g)
  BY <1>2 DEF MovedTo
<1>4. \A f \in Of(ns, s) : f = g \/ f \in Of(ns2, s) \/ f.intent = w.intent
  BY <1>2 DEF MovedTo
<1>5. CASE to.intent = "Discard"
  <2>1. Marked(ns2, s)
    BY <1>2, <1>5, MarkedOf
  <2> QED
    BY <1>5, <2>1, RecoveredFacts
<1>6. CASE to.intent = "Active"
  <2>1. g.intent = "Restore" /\ w.intent = "Active" /\ ~\E f \in Of(ns, s) : f.intent = "Active"
    BY <1>1, <1>6, ActiveFacts DEF MoveOK
  <2>2. \A f \in Of(ns, s) : f = g
    BY <1>1, <2>1 DEF FilesOK
  <2>3. ~Marked(ns, s) /\ ~Marked(ns2, s)
    BY <1>3, <2>1, <2>2, MarkedOf
  <2>4. Latest(ns, s, g) /\ Latest(ns2, s, w)
    BY <1>1, <1>2, <2>1 DEF Latest
  <2> QED
    BY <1>1, <1>6, <2>3, <2>4, RecoveredFacts
<1>7. CASE to.intent = "Restore"
  <2>1. g.intent = "Active" /\ Aside(ns, s) = {}
    BY <1>1, <1>7 DEF MoveOK
  <2>2. \A f \in Of(ns, s) : f = g
    BY <1>1, <2>1 DEF FilesOK, Aside
  <2>3. \A f \in Of(ns2, s) : f = w
    BY <1>3, <2>2
  <2>4. ~Marked(ns, s) /\ ~Marked(ns2, s)
    BY <1>7, <2>1, <2>2, <2>3, MarkedOf
  <2>5. Latest(ns, s, g) /\ Latest(ns2, s, w)
    BY <1>1, <1>2, <1>7, <2>1, <2>3 DEF Latest
  <2> QED
    BY <1>1, <1>7, <2>4, <2>5, RecoveredFacts
<1>8. CASE to.intent = "Superseded"
  <2>1. g.intent = "Restore" /\ w.intent = "Superseded" /\ \E f \in Of(ns, s) : f.intent = "Active"
    BY <1>1, <1>8, ActiveFacts DEF MoveOK
  <2>2. PICK a \in Of(ns, s) : a.intent = "Active"
    BY <2>1
  <2>3. a \in Of(ns2, s)
    BY <1>4, <2>1, <2>2
  <2>4. ~Marked(ns, s) /\ ~Marked(ns2, s)
    <3>1. \A f \in Of(ns, s) : f.intent = "Discard" => FALSE
      BY <1>1, <2>1 DEF FilesOK
    <3> QED
      BY <1>3, <2>1, <3>1, MarkedOf
  <2>5. Latest(ns, s, a) /\ Latest(ns2, s, a)
    BY <2>2, <2>3 DEF Latest
  <2> QED
    BY <1>8, <2>4, <2>5, RecoveredFacts
<1> QED
  BY <1>5, <1>6, <1>7, <1>8 DEF MoveOK, Intent

\* When a file of s may be removed: the active one once it is not to be loaded, a
\* quarantined one when another is loaded, a marker when there is no active one.
RemoveOK(ns, s, path) ==
  /\ path.intent = "Active" => Recovered(ns, s) = 0
  /\ path.intent = "Restore" => Exists(ns, s, Reference)
  /\ path.intent = "Discard" => ~Exists(ns, s, Reference)

LEMMA RemoveRecovered ==
  ASSUME NEW ns \in Namespace, NEW ns2 \in Namespace, NEW s \in Sessions, NEW path,
         FilesOK(ns, s), FilesOK(ns2, s), Of(ns2, s) = Of(ns, s) \ At(ns, s, path), RemoveOK(ns, s, path)
  PROVE  Recovered(ns2, s) = Recovered(ns, s) /\ (Marked(ns2, s) => Marked(ns, s))
<1>0. Marked(ns2, s) => Marked(ns, s)
  BY MarkedOf
<1>1. CASE At(ns, s, path) = {}
  BY <1>0, <1>1, SameRecovered
<1>2. CASE At(ns, s, path) # {}
  <2>1. PICK g : g \in At(ns, s, path)
    BY <1>2
  <2>2. g \in Of(ns, s) /\ g.intent = path.intent /\ At(ns, s, path) = {g}
    BY <2>1, AtFacts
  <2>3. Of(ns2, s) = Of(ns, s) \ {g}
    BY <2>2
  <2>4. g.intent \in {"Active", "Restore", "Superseded", "Discard"}
    BY <2>2 DEF Of, Namespace, StoredFile, Intent
  <2>5. CASE g.intent = "Active"
    <3>1. Recovered(ns, s) = 0
      BY <2>2, <2>5 DEF RemoveOK
    <3>2. Marked(ns, s)
      BY <2>2, <3>1, RecoveredLost
    <3>3. Marked(ns2, s)
      BY <2>3, <2>5, <3>2, MarkedOf
    <3> QED
      BY <1>0, <3>1, <3>3, RecoveredLost
  <2>6. CASE g.intent = "Discard"
    <3>1. \A f \in Of(ns, s) : f.intent # "Active"
      BY <2>2, <2>6, ActiveFacts DEF RemoveOK
    <3>2. \A f \in Of(ns, s) : f = g
      BY <2>2, <2>6, <3>1 DEF FilesOK
    <3>3. Of(ns2, s) = {} /\ Marked(ns, s)
      BY <2>2, <2>3, <2>6, <3>2, MarkedOf
    <3> QED
      BY <1>0, <3>3, RecoveredFacts
  <2>7. CASE g.intent \in {"Restore", "Superseded"}
    <3>1. Exists(ns, s, Reference)
      BY <2>2, <2>7 DEF RemoveOK, FilesOK
    <3>2. PICK a \in Of(ns, s) : a.intent = "Active"
      BY <3>1, ActiveFacts
    <3>3. a \in Of(ns2, s)
      BY <2>3, <2>7, <3>2
    <3>4. ~Marked(ns, s)
      BY <2>2, <2>7, MarkedOf DEF FilesOK
    <3>5. Latest(ns, s, a) /\ Latest(ns2, s, a)
      BY <3>2, <3>3 DEF Latest
    <3> QED
      BY <1>0, <3>4, <3>5, RecoveredFacts
  <2> QED
    BY <2>4, <2>5, <2>6, <2>7
<1> QED
  BY <1>1, <1>2

-----------------------------------------------------------------------------
(* What an operation does to what a start loads *)

\* The next operation neither publishes a reference nor marks one for discard.
Keeping(step) == step.op # "publish" /\ ~(step.op = "move" /\ step.to.intent = "Discard")

LEMMA StepRecovered ==
  ASSUME SessionInv, NEW step \in Step, CanDo(step), step.op = "move" => step.to.intent # "Blob",
         FilesOK(disk, proc.v), OperationOK(disk, proc.v, step), Effect(step) \in Namespace,
         step.op = "remove" => RemoveOK(disk, proc.v, step.path)
  PROVE  /\ Keeping(step) => /\ Recovered(Effect(step), proc.v) = Recovered(disk, proc.v)
                             /\ Marked(Effect(step), proc.v) => Marked(disk, proc.v)
         /\ step.op = "move" /\ step.to.intent = "Discard" =>
              Marked(Effect(step), proc.v) /\ Recovered(Effect(step), proc.v) = 0
         /\ step.op = "publish" /\ ~Marked(disk, proc.v) =>
              ~Marked(Effect(step), proc.v) /\ Recovered(Effect(step), proc.v) = step.last_used
         /\ step.op = "publish" => Exists(Effect(step), proc.v, Reference)
                                   /\ (Marked(disk, proc.v) => Marked(Effect(step), proc.v))
         /\ step.op = "move" /\ step.to.intent = "Active" => Exists(Effect(step), proc.v, Reference)
         /\ Exists(disk, proc.v, Reference) /\ (step.op \in {"move", "remove"} => step.path.intent # "Active")
              => Exists(Effect(step), proc.v, Reference)
<1>1. /\ disk \in Namespace /\ IsFiniteSet(disk.files) /\ proc.v \in Sessions
      /\ step.path \in Paths /\ step.to \in Paths /\ step.last_used \in 0 .. MaxClock
      /\ step.op \in {"move", "remove", "sync", "link", "publish"}
  BY Now, DiskFacts DEF Step, CanDo
<1>2. PICK v \in Sessions : v = proc.v
  BY <1>1
<1>3. PICK n \in Namespace : n = Effect(step)
  OBVIOUS
<1>4. FilesOK(n, v) /\ FilesOK(disk, v)
  BY <1>2, <1>3, OperationFiles
<1>5. CASE step.op \in {"sync", "link"}
  <2>1. n.files = disk.files
    BY <1>3, <1>5, EffectFacts DEF CanDo
  <2>2. Of(n, v) = Of(disk, v)
    BY <2>1 DEF Of
  <2>3. Recovered(n, v) = Recovered(disk, v) /\ (Marked(n, v) <=> Marked(disk, v))
        /\ (Exists(n, v, Reference) <=> Exists(disk, v, Reference))
    BY <2>2, SameRecovered
  <2> QED
    BY <1>2, <1>3, <1>5, <2>3
<1>6. CASE step.op = "remove"
  <2>1. n = Drop(disk, v, step.path)
    BY <1>1, <1>2, <1>3, <1>6, EffectFacts
  <2>2. Of(n, v) = Of(disk, v) \ At(disk, v, step.path)
    BY <1>1, <2>1, DropFacts DEF Of
  <2>3. Recovered(n, v) = Recovered(disk, v) /\ (Marked(n, v) => Marked(disk, v))
    BY <1>1, <1>2, <1>4, <1>6, <2>2, RemoveRecovered
  <2>4. ASSUME Exists(disk, v, Reference), step.path.intent # "Active"
        PROVE  Exists(n, v, Reference)
    <3>1. PICK f \in Of(disk, v) : f.intent = "Active"
      BY <1>4, <2>4, ActiveFacts
    <3>2. f \in Of(n, v)
      BY <2>2, <2>4, <3>1 DEF At
    <3> QED
      BY <1>4, <3>1, <3>2, ActiveFacts
  <2> QED
    BY <1>2, <1>3, <1>6, <2>3, <2>4
<1>7. CASE step.op = "publish"
  <2>1. n = Put(disk, v, Reference, step.last_used)
    BY <1>2, <1>3, <1>7, EffectFacts
  <2>2. /\ step.last_used # 0 /\ <<v, step.last_used>> \in disk.blobs
        /\ \A f \in Of(disk, v) : f.last_used <= step.last_used
    BY <1>2, <1>7 DEF OperationOK
  <2>3. PICK w : w = Written(v, Reference, step.last_used)
    OBVIOUS
  <2>4. w.session = v /\ w.intent = "Active" /\ w.last_used = step.last_used
    BY <2>3, PathFacts DEF Written
  <2>5. Of(n, v) = (Of(disk, v) \ At(disk, v, Reference)) \cup {w}
    <3>1. n.files = (disk.files \ At(disk, v, Reference)) \cup {w}
      BY <1>1, <2>1, <2>3, PathFacts, PutFacts
    <3> QED
      BY <2>4, <3>1 DEF Of
  <2>6. \A f \in At(disk, v, Reference) : f.intent = "Active"
    BY PathFacts DEF At
  <2>7. Latest(n, v, w) /\ w \in Of(n, v)
    BY <2>4, <2>5 DEF Latest
  <2>8. Marked(n, v) <=> Marked(disk, v)
    BY <2>4, <2>5, <2>6, MarkedOf
  <2>9. ~Marked(n, v) => Recovered(n, v) = step.last_used
    BY <1>4, <2>4, <2>7, RecoveredFacts
  <2>10. Exists(n, v, Reference)
    BY <1>4, <2>4, <2>7, ActiveFacts
  <2> QED
    BY <1>2, <1>3, <1>7, <2>8, <2>9, <2>10 DEF Keeping
<1>8. CASE step.op = "move"
  <2>1. PICK w : w = Written(v, step.to, LastUsed(disk, v, step.path))
    OBVIOUS
  <2>2. w.session = v /\ w.nonce = step.to.nonce /\ w.intent = step.to.intent
        /\ w.last_used = LastUsed(disk, v, step.path)
    BY <2>1 DEF Written
  <2>3. Exists(disk, v, step.path) /\ MovedTo(disk, n, v, step.path, w)
    BY <1>2, <1>3, <1>8, <2>1, OperationFiles
  <2>4. MoveOK(disk, v, step.path, step.to)
    BY <1>2, <1>8 DEF OperationOK
  <2>5. /\ step.to.intent # "Discard" =>
             Recovered(n, v) = Recovered(disk, v) /\ ~Marked(n, v) /\ ~Marked(disk, v)
        /\ step.to.intent = "Discard" => Marked(n, v) /\ Recovered(n, v) = 0
    BY <1>1, <1>4, <2>2, <2>3, <2>4, MoveRecovered
  <2>6. step.to.intent = "Active" => Exists(n, v, Reference)
    BY <1>4, <2>2, <2>3, ActiveFacts DEF MovedTo
  <2>7. ASSUME Exists(disk, v, Reference), step.path.intent # "Active"
        PROVE  Exists(n, v, Reference)
    <3>1. PICK f \in Of(disk, v) : f.intent = "Active"
      BY <1>4, <2>7, ActiveFacts
    <3>2. f \notin At(disk, v, step.path)
      BY <2>7, <3>1 DEF At
    <3>3. f \in Of(n, v) \/ (f.intent = w.intent)
      BY <2>3, <3>1, <3>2 DEF MovedTo
    <3> QED
      BY <1>4, <2>2, <2>6, <3>1, <3>3, ActiveFacts
  <2> QED
    BY <1>2, <1>3, <1>8, <2>5, <2>6, <2>7 DEF Keeping
<1> QED
  BY <1>1, <1>5, <1>6, <1>7, <1>8

-----------------------------------------------------------------------------
(* A discard has its table entry, and a lease without a slot has its owner *)

\* A task may be persisted: its retained lease is not one to discard.  A discard in progress
\* has taken the retained lease, and a lease without a slot has an owner to go back to.
TableOK(c, m, t) ==
  /\ \A s \in Sessions : m[s].at = "task" => ~DiscardPending(t[s])
  /\ c.pc = "discarded" \/ (c.pc \in {"attach", "cold"} /\ c.ok) => t[c.v] = NoLease
  /\ c.pc = "discarded" => c.lease # NoLease
  /\ c.pc \in DiscardPcs /\ LiveLease(c.lease) /\ ~c.lease.slot => m[c.v].at \in {"resident", "hibernated"}
  /\ c.pc # "panic"

TableInv == TableOK(proc, mem, table)

\* A step to a place of which the invariant says nothing, that starts no task.
LEMMA ElsewhereTable ==
  ASSUME TableInv, NEW c, c = proc', c.pc \notin DiscardPcs \cup {"attach", "cold", "panic"},
         \A s \in Sessions : mem'[s].at = "task" => mem[s].at = "task" /\ table'[s] = table[s]
  PROVE  TableInv'
BY DEF TableInv, TableOK

\* A step to the discard of a session whose lease it takes.
LEMMA DiscardTable ==
  ASSUME SessionInv, TableInv, NEW c, c = proc', c.pc = "discard", c.v \in Sessions,
         c.lease \in {NoLease, mem[c.v].lease},
         \A s \in Sessions : mem'[s].at = mem[s].at /\ table'[s] = table[s]
  PROVE  TableInv'
<1>1. PICK v \in Sessions : v = c.v
  OBVIOUS
<1>2. SessionOK(mem[v]) /\ mem[v] \in Held
  BY Now
<1>3. ASSUME LiveLease(c.lease), ~c.lease.slot
      PROVE  mem[v].at \in {"resident", "hibernated"}
  <2>1. c.lease = mem[v].lease /\ mem[v].lease # NoLease
    BY <1>1, <1>3, LeaseFacts
  <2>2. mem[v].lease.discard
    BY <1>2, <1>3, <2>1 DEF SessionOK
  <2> QED
    BY <1>2, <2>1, <2>2 DEF SessionOK, DiscardPending, Held
<1> QED
  BY <1>1, <1>3 DEF TableInv, TableOK

\* A live lease in hand, or in memory, leaves the table's place free.
LEMMA TableIsFree ==
  ASSUME SessionInv, OneInv, NEW s \in Sessions, LiveLease(mem[s].lease) \/ LiveLease(InHand(proc, s))
  PROVE  table[s] = NoLease
<1>1. One(mem[s].lease, table[s], InHand(proc, s)) /\ RetainedOK(table[s])
  BY Now DEF OneInv
<1> QED
  BY <1>1 DEF One, RetainedOK, Waiting

LEMMA ContinueColdTable ==
  ASSUME SessionInv, OneInv, TableInv, ContinueCold
  PROVE  TableInv'
<1>1. PICK c : c = proc'
  OBVIOUS
<1>2. /\ proc.pc = "cold" /\ c = Idle /\ UNCHANGED table
      /\ mem' = IF proc.ok THEN [mem EXCEPT ![proc.s].at = "task"] ELSE mem
  BY <1>1 DEF ContinueCold, Reached
<1>3. proc.v = proc.s /\ proc.s \in Sessions /\ mem \in [Sessions -> Held] /\ proc.ok \in BOOLEAN
  BY <1>2, Now DEF CallOK
<1>4. proc.ok => ~DiscardPending(table[proc.s])
  BY <1>2, <1>3, LeaseFacts DEF TableInv, TableOK
<1>5. ASSUME NEW s \in Sessions, mem'[s].at = "task"
      PROVE  mem[s].at = "task" \/ (s = proc.s /\ proc.ok)
  BY <1>2, <1>3, <1>5 DEF Held
<1> QED
  BY <1>1, <1>2, <1>4, <1>5, IdleFacts DEF TableInv, TableOK

LEMMA AttachTable ==
  ASSUME SessionInv, OneInv, TableInv, AttachResidentSession
  PROVE  TableInv'
<1>1. PICK c : c = proc'
  OBVIOUS
<1>2. /\ proc.pc = "attach" /\ c = Idle /\ UNCHANGED table
      /\ \/ proc.ok /\ mem' = [mem EXCEPT ![proc.s].at = "task", ![proc.s].lease = proc.lease]
         \/ proc.ok /\ mem' = [mem EXCEPT ![proc.s].lease = proc.lease]
         \/ UNCHANGED mem
  BY <1>1 DEF AttachResidentSession, Reached, Holding
<1>3. proc.v = proc.s /\ proc.s \in Sessions /\ mem \in [Sessions -> Held]
  BY <1>2, Now DEF CallOK
<1>4. proc.ok => ~DiscardPending(table[proc.s])
  BY <1>2, <1>3, LeaseFacts DEF TableInv, TableOK
<1>5. ASSUME NEW s \in Sessions, mem'[s].at = "task"
      PROVE  mem[s].at = "task" \/ (s = proc.s /\ proc.ok)
  BY <1>2, <1>3, <1>5 DEF Held
<1> QED
  BY <1>1, <1>2, <1>4, <1>5, IdleFacts DEF TableInv, TableOK

\* The backend lost a session whose reference is leased.
LEMMA LostTable ==
  ASSUME SessionInv, OneInv, TableInv, proc.pc \in {"wake", "hibernating"}, proc.lease # NoLease,
         NEW then, proc' = [DiscardLeased(proc.lease) EXCEPT !.then = then], UNCHANGED table,
         \A s \in Sessions : mem'[s].at = "task" => mem[s].at = "task"
  PROVE  TableInv'
<1>1. PICK c : c = proc'
  OBVIOUS
<1>2. PICK d : d = DiscardLeased(proc.lease)
  OBVIOUS
<1>3. proc.v \in Sessions /\ proc.lease \in Lease /\ Waiting(proc.lease) /\ HandOK(proc, mem[proc.v].lease, table[proc.v])
  BY Now DEF HandOK
<1>4. LiveLease(proc.lease) /\ proc.lease.slot
  <2>1. LiveLease(proc.lease)
    BY <1>3 DEF Waiting
  <2>2. ~DiscardPending(proc.lease) /\ (proc.lease.slot \/ proc.lease.discard)
    BY <1>3, <2>1 DEF HandOK
  <2> QED
    BY <2>1, <2>2 DEF DiscardPending
<1>5. table[proc.v] = NoLease
  BY <1>3, <1>4, TableIsFree DEF InHand
<1>6. PICK m : m = [proc.lease EXCEPT !.discard = TRUE]
  OBVIOUS
<1>7. m \in Lease /\ m.slot /\ m.discard
  BY <1>3, <1>4, <1>6, DiscardingFacts
<1>8. d = Call("discarded", m, Discard(m))
  BY <1>2, <1>6 DEF DiscardLeased
<1>9. d.pc = "discarded" /\ d.v = proc.v /\ d.lease = m /\ DOMAIN d = DOMAIN proc
  BY <1>8, Now DEF Call, CallType
<1>10. c.pc = "discarded" /\ c.v = proc.v /\ c.lease = m
  BY <1>1, <1>2, <1>8, Now DEF Call, CallType
<1>11. m # NoLease
  BY <1>7, LeaseFacts
<1> QED
  BY <1>1, <1>5, <1>7, <1>10, <1>11 DEF TableInv, TableOK

LEMMA WakeTable ==
  ASSUME SessionInv, OneInv, TableInv, WakeHibernatedSession
  PROVE  TableInv'
<1>1. PICK c : c = proc'
  OBVIOUS
<1>2. proc.pc = "wake" /\ UNCHANGED table /\ proc.s \in Sessions /\ mem \in [Sessions -> Held]
  BY Now DEF WakeHibernatedSession, Reached
<1>3. \A s \in Sessions : mem'[s].at = "task" => mem[s].at = "task"
  <2>1. UNCHANGED mem \/ mem' = [mem EXCEPT ![proc.s] = Absent]
    BY DEF WakeHibernatedSession, RemoveSessionState
  <2> QED
    BY <1>2, <2>1, AbsentFacts
<1>4. CASE proc' = Idle
  BY <1>1, <1>2, <1>3, <1>4, IdleFacts, ElsewhereTable
<1>5. CASE \E outcome \in {"woken", "wakeFailed"} :
             proc' = Call(outcome, proc.lease, Restore(proc.s, proc.lease))
  <2>1. c.pc \in {"woken", "wakeFailed"}
    BY <1>1, <1>5, Now DEF Call, CallType
  <2> QED
    BY <1>1, <1>2, <1>3, <2>1, ElsewhereTable
<1>6. CASE proc.lease # NoLease /\ proc' = [DiscardLeased(proc.lease) EXCEPT !.then = "ended"]
  BY <1>2, <1>3, <1>6, LostTable
<1> QED
  BY <1>4, <1>5, <1>6 DEF WakeHibernatedSession

LEMMA InsertEndsPc ==
  ASSUME NEW ok, InsertEnds(ok), NEW c, c = proc'
  PROVE  c.pc \in {"respond", "idle"}
BY IdleFacts DEF InsertEnds, Begin, Enter

LEMMA HibernateTable ==
  ASSUME SessionInv, OneInv, TableInv, HibernateStored
  PROVE  TableInv'
<1>1. PICK c : c = proc'
  OBVIOUS
<1>2. proc.pc = "hibernating" /\ UNCHANGED table /\ proc.v \in Sessions /\ mem \in [Sessions -> Held]
  BY Now DEF HibernateStored, Reached
<1>3. \A s \in Sessions : mem'[s].at = "task" => mem[s].at = "task"
  <2>1. UNCHANGED mem \/ mem' = [mem EXCEPT ![proc.v] = Absent]
    BY DEF HibernateStored, RemoveSessionState
  <2> QED
    BY <1>2, <2>1, AbsentFacts
<1>4. CASE InsertEnds(FALSE)
  BY <1>1, <1>2, <1>3, <1>4, InsertEndsPc, ElsewhereTable
<1>5. CASE \E outcome \in {"captured", "uncaptured"} :
             proc' = Call(outcome, proc.lease, Restore(proc.v, proc.lease))
  <2>1. c.pc \in {"captured", "uncaptured"}
    BY <1>1, <1>5, Now DEF Call, CallType
  <2> QED
    BY <1>1, <1>2, <1>3, <2>1, ElsewhereTable
<1>6. CASE proc.lease # NoLease /\ proc' = [DiscardLeased(proc.lease) EXCEPT !.then = "lost"]
  BY <1>2, <1>3, <1>6, LostTable
<1> QED
  BY <1>4, <1>5, <1>6 DEF HibernateStored

\* Steps of the server that keep where sessions are, or take one out of its task.
LEMMA SettleTable ==
  ASSUME SessionInv, OneInv, TableInv,
         \/ FinishWake \/ FinishWakeError \/ Persisted \/ Retired \/ RetainedSession
         \/ FitContinues \/ StoreHibernated \/ RestoreFailedHibernation
  PROVE  TableInv'
<1>1. PICK c : c = proc'
  OBVIOUS
<1>2. /\ mem \in [Sessions -> Held] /\ proc.s \in Sessions /\ proc.v \in Sessions /\ proc \in CallType
      /\ table \in [Sessions -> Lease]
  BY Now
<1>3. c.pc \notin DiscardPcs \cup {"attach", "cold", "panic"}
  <2>1. CASE FinishWake \/ FinishWakeError
    BY <1>1, <2>1, IdleFacts DEF FinishWake, FinishWakeError, Begin, Enter
  <2>2. CASE Persisted
    <3>1. PICK l : l = mem[proc.s].lease
      OBVIOUS
    <3>2. \/ c = Call("retired", l, Retire(l))
          \/ c = [Call("retained", l, Restore(proc.s, l)) EXCEPT !.top = "retain"]
      BY <1>1, <2>2, <3>1 DEF Persisted
    <3>3. CASE c = Call("retired", l, Retire(l))
      BY <1>2, <3>3 DEF Call, CallType
    <3>4. CASE c = [Call("retained", l, Restore(proc.s, l)) EXCEPT !.top = "retain"]
      BY <1>2, <3>4 DEF Call, CallType
    <3> QED
      BY <3>2, <3>3, <3>4
  <2>3. CASE Retired \/ RetainedSession
    BY <1>1, <2>3, IdleFacts DEF Retired, RetainedSession, Proceed, Enter
  <2>4. CASE FitContinues \/ StoreHibernated \/ RestoreFailedHibernation
    <3>1. InsertEnds(FALSE) \/ proc' = Proceed("fit", "none", proc.s, NoLease)
      BY <2>4 DEF FitContinues, StoreHibernated, RestoreFailedHibernation
    <3>2. CASE InsertEnds(FALSE)
      <4>1. c.pc \in {"respond", "idle"}
        BY <1>1, <3>2, InsertEndsPc
      <4> QED
        BY <4>1
    <3>3. CASE proc' = Proceed("fit", "none", proc.s, NoLease)
      BY <1>1, <3>3 DEF Proceed, Enter
    <3> QED
      BY <3>1, <3>2, <3>3
  <2> QED
    BY <2>1, <2>2, <2>3, <2>4
<1>4. ASSUME NEW s \in Sessions, mem'[s].at = "task"
      PROVE  mem[s].at = "task" /\ table'[s] = table[s]
  <2>1. CASE FinishWake \/ FinishWakeError
    BY <1>2, <1>4, <2>1 DEF FinishWake, FinishWakeError, Holding, Held
  <2>2. CASE Persisted
    BY <1>2, <1>4, <2>2 DEF Persisted, TakeLease, Held
  <2>3. CASE Retired
    <3>1. UNCHANGED table \/ table' = Retained(proc.s, proc.lease)
      BY <2>3 DEF Retired
    <3>2. s # proc.s /\ mem[s].at = "task"
      BY <1>2, <1>4, <2>3 DEF Retired, Held
    <3> QED
      BY <1>2, <3>1, <3>2 DEF Retained
  <2>4. CASE RetainedSession
    BY <1>2, <1>4, <2>4 DEF RetainedSession, Held
  <2>5. CASE FitContinues
    <3>1. /\ UNCHANGED table
          /\ UNCHANGED mem \/ mem' = [mem EXCEPT ![proc.v] = Absent] \/ mem' = [mem EXCEPT ![proc.v].lease = proc.lease]
      BY <2>5 DEF FitContinues, Holding
    <3> QED
      BY <1>2, <1>4, <3>1, AbsentFacts DEF Held
  <2>6. CASE StoreHibernated \/ RestoreFailedHibernation
    <3>1. /\ UNCHANGED table
          /\ \/ UNCHANGED mem \/ mem' = [mem EXCEPT ![proc.v].lease = proc.lease]
             \/ \E l : mem' = [mem EXCEPT ![proc.v].at = "hibernated", ![proc.v].lease = l]
      BY <2>6 DEF StoreHibernated, RestoreFailedHibernation, Holding
    <3> QED
      BY <1>2, <1>4, <3>1 DEF Held
  <2> QED
    BY <2>1, <2>2, <2>3, <2>4, <2>5, <2>6
<1> QED
  BY <1>1, <1>3, <1>4, ElsewhereTable

\* A lease goes back to the table.
LEMMA RetainedTable ==
  ASSUME SessionInv, NEW x \in Sessions, NEW l \in Lease
  PROVE  \A s \in Sessions : Retained(x, l)[s] = table[s] \/ (s = x /\ Retained(x, l)[s] = l)
BY Now DEF Retained

LEMMA MetadataTable ==
  ASSUME SessionInv, OneInv, TableInv, PersistedMetadata
  PROVE  TableInv'
<1>1. PICK c : c = proc'
  OBVIOUS
<1>2. /\ proc.pc = "metadata" /\ table' = Retained(proc.s, proc.lease) /\ proc.s \in Sessions
      /\ proc.v = proc.s /\ proc.lease \in Lease /\ mem \in [Sessions -> Held] /\ HandOK(proc, mem[proc.v].lease, table[proc.v])
  BY Now DEF PersistedMetadata, Reached, CallOK
<1>3. c.pc \in {"idle", "lease"}
  BY <1>1, IdleFacts DEF PersistedMetadata, Begin, Enter
<1>4. ~DiscardPending(proc.lease)
  <2>1. Waiting(proc.lease) /\ (LiveLease(proc.lease) => ~DiscardPending(proc.lease))
    BY <1>2 DEF HandOK
  <2> QED
    BY <2>1, LeaseFacts DEF Waiting
<1>5. \A s \in Sessions : table'[s] = table[s] \/ ~DiscardPending(table'[s])
  BY <1>2, <1>4, RetainedTable
<1>6. ASSUME NEW s \in Sessions, mem'[s].at = "task"
      PROVE  ~DiscardPending(table'[s])
  <2>1. CASE mem[s].at = "task"
    BY <1>5, <2>1 DEF TableInv, TableOK
  <2>2. CASE mem[s].at # "task"
    <3>1. s = proc.s /\ proc.ok
      BY <1>2, <1>6, <2>2 DEF PersistedMetadata, Held
    <3>2. table[proc.s] = NoLease
      BY <1>2, <3>1 DEF HandOK
    <3> QED
      BY <1>5, <3>1, <3>2, LeaseFacts
  <2> QED
    BY <2>1, <2>2
<1> QED
  BY <1>1, <1>3, <1>6 DEF TableInv, TableOK

LEMMA RestorePersistedTable ==
  ASSUME SessionInv, OneInv, TableInv, RestorePersisted
  PROVE  TableInv'
<1>1. PICK c : c = proc'
  OBVIOUS
<1>2. /\ proc.pc = "restoring" /\ UNCHANGED table /\ proc.s \in Sessions
      /\ proc.v = proc.s /\ mem \in [Sessions -> Held] /\ HandOK(proc, mem[proc.v].lease, table[proc.v])
  BY Now DEF RestorePersisted, Reached, CallOK
<1>3. c.pc \in {"idle", "unloaded"}
  <2>1. c = Idle \/ c = Call("unloaded", proc.lease, Restore(proc.s, proc.lease))
    BY <1>1 DEF RestorePersisted
  <2> QED
    BY <2>1, IdleFacts, Now DEF Call, CallType
<1>4. ASSUME NEW s \in Sessions, mem'[s].at = "task"
      PROVE  ~DiscardPending(table'[s])
  <2>1. CASE mem[s].at = "task"
    BY <1>2, <2>1 DEF TableInv, TableOK
  <2>2. CASE mem[s].at # "task"
    <3>1. s = proc.s /\ proc.ok
      BY <1>2, <1>4, <2>2 DEF RestorePersisted, Held
    <3>2. table[proc.s] = NoLease
      BY <1>2, <3>1 DEF HandOK
    <3> QED
      BY <1>2, <3>1, <3>2, LeaseFacts
  <2> QED
    BY <2>1, <2>2
<1> QED
  BY <1>1, <1>3, <1>4 DEF TableInv, TableOK

LEMMA ReferenceRestoredTable ==
  ASSUME SessionInv, OneInv, TableInv, ReferenceRestored
  PROVE  TableInv'
<1>1. PICK c : c = proc'
  OBVIOUS
<1>2. /\ proc.pc = "unloaded" /\ UNCHANGED mem /\ proc.s \in Sessions /\ c = Idle
      /\ UNCHANGED table \/ table' = Retained(proc.s, proc.lease)
  BY <1>1, Now DEF ReferenceRestored, Reached
<1>3. proc.v = proc.s /\ mem[proc.s].at = "absent" /\ proc.lease \in Lease
  <2>1. CallOK(proc, clock) /\ WhereOK(proc, mem[proc.v].at) /\ proc.top # "fork"
    BY Now DEF OneInv
  <2> QED
    BY <1>2, <2>1, Now DEF CallOK, WhereOK
<1>4. \A s \in Sessions : mem'[s].at = "task" => mem[s].at = "task" /\ table'[s] = table[s]
  BY <1>2, <1>3, RetainedTable
<1> QED
  BY <1>1, <1>2, <1>4, IdleFacts, ElsewhereTable

LEMMA TakenAt ==
  ASSUME SessionInv, NEW x \in Sessions
  PROVE  \A s \in Sessions : TakeLease(x)[s].at = mem[s].at
BY Now DEF TakeLease, Held

\* A task is discarded, when it ends or when the response fails.
LEMMA EndedTable ==
  ASSUME SessionInv, OneInv, TableInv, TaskDiscarded \/ Respond
  PROVE  TableInv'
<1>1. PICK c : c = proc'
  OBVIOUS
<1>2. /\ UNCHANGED table /\ proc.s \in Sessions
      /\ UNCHANGED mem \/ mem' = TakeLease(proc.s)
      /\ c = Idle \/ c = Begin("discard", "ended", "ended", proc.s, NoLease)
           \/ c = Begin("discard", "ended", "ended", proc.s, mem[proc.s].lease)
  BY <1>1, Now DEF TaskDiscarded, Respond
<1>3. \A s \in Sessions : mem'[s].at = mem[s].at /\ table'[s] = table[s]
  BY <1>2, TakenAt
<1>4. CASE c = Idle
  BY <1>1, <1>3, <1>4, IdleFacts, ElsewhereTable
<1>5. CASE c # Idle
  <2>1. c.pc = "discard" /\ c.v = proc.s /\ c.lease \in {NoLease, mem[proc.s].lease}
    BY <1>2, <1>5 DEF Begin, Enter
  <2> QED
    BY <1>1, <1>2, <1>3, <2>1, DiscardTable
<1> QED
  BY <1>4, <1>5

LEMMA OldestHibernatedTable ==
  ASSUME SessionInv, OneInv, TableInv, DiscardOldestHibernated, InState("hibernated") # {}, UNCHANGED table
  PROVE  TableInv'
<1>1. PICK c : c = proc'
  OBVIOUS
<1>2. PICK v \in Sessions : v = Oldest(InState("hibernated"))
  BY OldestFacts DEF InState
<1>3. /\ mem' = TakeLease(v) /\ c.v = v /\ c.lease = mem[v].lease /\ c.pc \in {"discard", "evicted"}
  BY <1>1, <1>2 DEF DiscardOldestHibernated, Proceed, Enter
<1>4. \A s \in Sessions : mem'[s].at = mem[s].at /\ table'[s] = table[s]
  BY <1>3, TakenAt
<1> QED
  BY <1>1, <1>3, <1>4, DiscardTable, ElsewhereTable

LEMMA FitTable ==
  ASSUME SessionInv, OneInv, TableInv, Fit
  PROVE  TableInv'
<1>1. PICK c : c = proc'
  OBVIOUS
<1>2. UNCHANGED table
  BY DEF Fit
<1>3. ASSUME NEW ok, InsertEnds(ok), UNCHANGED mem
      PROVE  TableInv'
  BY <1>1, <1>2, <1>3, InsertEndsPc, ElsewhereTable
<1>4. ASSUME InState("hibernated") # {}, DiscardOldestHibernated
      PROVE  TableInv'
  BY <1>2, <1>4, OldestHibernatedTable
<1>5. ASSUME Cardinality(InState("hibernated")) > MaxHibernated
      PROVE  InState("hibernated") # {}
  BY <1>5, FS_EmptySet, StoreAssumption
<1>6. ASSUME Cardinality(InState("resident")) > MaxSessions
      PROVE  InState("resident") # {}
  BY <1>6, FS_EmptySet, StoreAssumption
<1>7. ASSUME InState("resident") # {}, NEW v, v = Oldest(InState("resident")), mem' = TakeLease(v),
             \/ proc' = Proceed("discard", "fitDiscarded", v, mem[v].lease)
             \/ proc' = Proceed("hibernating", "none", v, mem[v].lease)
             \/ proc' = Proceed("lease", "hibernating", v, NoLease)
      PROVE  TableInv'
  <2>1. v \in Sessions
    BY <1>7, OldestFacts DEF InState
  <2>2. \A s \in Sessions : mem'[s].at = mem[s].at /\ table'[s] = table[s]
    BY <1>2, <1>7, <2>1, TakenAt
  <2>3. c.pc \in {"discard", "hibernating", "lease"} /\ c.v = v /\ (c.pc = "discard" => c.lease = mem[v].lease)
    BY <1>1, <1>7 DEF Proceed, Enter
  <2> QED
    BY <1>1, <2>1, <2>2, <2>3, DiscardTable, ElsewhereTable
<1>8. \/ \E ok \in BOOLEAN : InsertEnds(ok) /\ UNCHANGED mem
      \/ /\ Cardinality(InState("hibernated")) > MaxHibernated \/ InState("hibernated") # {}
         /\ DiscardOldestHibernated
      \/ /\ Cardinality(InState("resident")) > MaxSessions
         /\ LET v == Oldest(InState("resident"))
            IN  /\ mem' = TakeLease(v)
                /\ \/ proc' = Proceed("discard", "fitDiscarded", v, mem[v].lease)
                   \/ proc' = Proceed("hibernating", "none", v, mem[v].lease)
                   \/ proc' = Proceed("lease", "hibernating", v, NoLease)
  BY DEF Fit
<1> QED
  BY <1>3, <1>4, <1>5, <1>6, <1>7, <1>8

LEMMA ServerStepTable ==
  ASSUME SessionInv, OneInv, TableInv, ServerStep
  PROVE  TableInv'
BY ContinueColdTable, AttachTable, WakeTable, SettleTable, MetadataTable, RestorePersistedTable,
   ReferenceRestoredTable, EndedTable, FitTable, HibernateTable DEF ServerStep

\* A step of lease_reference: nothing of a task, and the table's place is free when it goes on.
LEMMA LeaseStepTable ==
  ASSUME SessionInv, OneInv, TableInv, proc.pc \in LeasePcs, UNCHANGED mem, NEW c, c = proc',
         c.v = proc.v, c.pc \in LeasePcs \cup LeaseThens, c.ok => table'[proc.v] = NoLease,
         \A s \in Sessions \ {proc.v} : table'[s] = table[s]
  PROVE  TableInv'
<1>1. mem[proc.v].at # "task"
  <2>1. proc.then \in LeaseThens /\ proc.top # "fork" /\ CallOK(proc, clock) /\ WhereOK(proc, mem[proc.v].at)
    BY LeaseNow, Now DEF OneInv
  <2>2. CASE proc.then \in {"attach", "wake", "hibernating"}
    BY <2>1, <2>2 DEF WhereOK
  <2>3. CASE proc.then \in {"metadata", "restoring"}
    BY <2>1, <2>3 DEF CallOK, WhereOK
  <2> QED
    BY <2>1, <2>2, <2>3
<1>2. c.pc \notin DiscardPcs \cup {"cold", "panic"}
  OBVIOUS
<1> QED
  BY <1>1, <1>2 DEF TableInv, TableOK

LEMMA TakeRecoveryLeaseTable ==
  ASSUME SessionInv, OneInv, TableInv, TakeRecoveryLease
  PROVE  TableInv'
<1>1. PICK c : c = proc'
  OBVIOUS
<1>2. /\ proc.pc = "lease" /\ table' = [table EXCEPT ![proc.v] = NoLease] /\ UNCHANGED mem
      /\ c = ResolveRecoveryLease(proc.v, table[proc.v])
  BY <1>1 DEF TakeRecoveryLease, Reached
<1>3. /\ proc \in CallType /\ proc.v \in Sessions /\ table \in [Sessions -> Lease] /\ table[proc.v] \in Lease
      /\ proc.then \in LeaseThens
  BY <1>2, LeaseNow, Now
<1>4. PICK l \in Lease : l = table[proc.v]
  BY <1>3
<1>5. \/ c = CheckActive
      \/ \E pc \in {"resolved", "resolvedRetire", "resolvedDiscard"} : \E m, io : c = Call(pc, m, io)
  <2>1. l.state \in {"None", "Restore", "Active", "Superseded", "Discard", "Removed"}
    BY <1>4 DEF Lease, LeaseState
  <2>2. c = ResolveRecoveryLease(proc.v, l)
    BY <1>2, <1>4
  <2> QED
    BY <2>1, <2>2, Now DEF ResolveRecoveryLease, DiscardPending, ActiveConflicts, ActiveSupersedes
<1>6. c.v = proc.v /\ c.pc \in LeasePcs \cup LeaseThens
  BY <1>3, <1>5 DEF CheckActive, Return, Call, CallType
<1>7. table'[proc.v] = NoLease /\ \A s \in Sessions \ {proc.v} : table'[s] = table[s]
  BY <1>2, <1>3
<1> QED
  BY <1>1, <1>2, <1>6, <1>7, LeaseStepTable

LEMMA LeasingTable ==
  ASSUME SessionInv, OneInv, TableInv, Resolved \/ LeaseActive \/ Leasing \/ Unleasing
  PROVE  TableInv'
<1>1. PICK c : c = proc'
  OBVIOUS
<1>2. /\ proc.pc \in LeasePcs \ {"lease"} /\ UNCHANGED mem
      /\ \/ UNCHANGED table /\ (c = CheckActive \/ (\E ok \in BOOLEAN : \E l : c = Return(ok, l))
                                  \/ \E pc \in LeasePcs : \E l, io : c = Call(pc, l, io))
         \/ table' = Retained(proc.v, proc.lease) /\ c = Return(FALSE, NoLease)
  <2>1. CASE Resolved
    BY <1>1, <2>1 DEF Resolved, Reached
  <2>2. CASE LeaseActive
    BY <1>1, <2>2 DEF LeaseActive, Reached
  <2>3. CASE Leasing
    BY <1>1, <2>3, Now DEF Leasing, Reached
  <2>4. CASE Unleasing
    BY <1>1, <2>4 DEF Unleasing, Reached
  <2> QED
    BY <2>1, <2>2, <2>3, <2>4
<1>3. /\ proc \in CallType /\ proc.v \in Sessions /\ table \in [Sessions -> Lease]
      /\ proc.then \in LeaseThens /\ table[proc.v] = NoLease
  BY <1>2, LeaseNow, Now
<1>4. c.v = proc.v /\ c.pc \in LeasePcs \cup LeaseThens
  BY <1>2, <1>3 DEF CheckActive, Return, Call, CallType
<1>5. c.ok => table'[proc.v] = NoLease
  <2>1. CASE UNCHANGED table
    BY <1>3, <2>1
  <2>2. CASE c = Return(FALSE, NoLease)
    BY <1>3, <2>2 DEF Return, CallType
  <2> QED
    BY <1>2, <2>1, <2>2
<1>6. \A s \in Sessions \ {proc.v} : table'[s] = table[s]
  BY <1>2, <1>3 DEF Retained
<1> QED
  BY <1>1, <1>2, <1>4, <1>5, <1>6, LeaseStepTable

\* discard_leased_session of a lease that has a slot, or an owner.
LEMMA DiscardLeasedTable ==
  ASSUME SessionInv, OneInv, TableInv, NEW l \in Lease, proc' = DiscardLeased(l), UNCHANGED mem,
         table'[proc.v] = NoLease, \A s \in Sessions \ {proc.v} : table'[s] = table[s],
         LiveLease(l) /\ ~l.slot => OwnerHeld(proc.v)
  PROVE  TableInv'
<1>1. PICK c : c = proc'
  OBVIOUS
<1>2. PICK m : m = [l EXCEPT !.discard = TRUE]
  OBVIOUS
<1>3. m \in Lease /\ m.slot = l.slot /\ m.discard /\ m.state = l.state
  BY <1>2, DiscardingFacts
<1>4. c.pc = "discarded" /\ c.v = proc.v /\ c.lease = m
  BY <1>1, <1>2, Now DEF DiscardLeased, Call, CallType
<1>5. m # NoLease /\ (LiveLease(m) => LiveLease(l))
  BY <1>3, LeaseFacts DEF LiveLease
<1>6. \A s \in Sessions : mem'[s].at = "task" => ~DiscardPending(table'[s])
  BY LeaseFacts DEF TableInv, TableOK
<1> QED
  BY <1>1, <1>3, <1>4, <1>5, <1>6 DEF TableInv, TableOK, OwnerHeld

\* discard_session_with_reference returns.
LEMMA ReturnsTable ==
  ASSUME SessionInv, OneInv, TableInv, proc.pc \in DiscardPcs, NEW ok \in BOOLEAN, proc' = Return(ok, NoLease),
         mem'[proc.v].at # "task", \A s \in Sessions \ {proc.v} : mem'[s].at = mem[s].at /\ table'[s] = table[s],
         ok => table'[proc.v] = NoLease
  PROVE  TableInv'
<1>1. PICK c : c = proc'
  OBVIOUS
<1>2. proc \in CallType /\ proc.then \in DiscardThens \cup {"lost"}
  BY DiscardNow
<1>3. c.pc = proc.then /\ c.v = proc.v /\ c.ok = ok
  BY <1>1, <1>2 DEF Return, CallType
<1> QED
  BY <1>1, <1>2, <1>3 DEF TableInv, TableOK

LEMMA RemovedState ==
  ASSUME SessionInv, NEW x \in Sessions, RemoveSessionState(x)
  PROVE  mem'[x].at # "task" /\ \A s \in Sessions \ {x} : mem'[s].at = mem[s].at
BY Now, AbsentFacts DEF RemoveSessionState

LEMMA DiscardSessionTable ==
  ASSUME SessionInv, OneInv, TableInv, DiscardSession
  PROVE  TableInv'
<1>1. PICK x \in Sessions : x = proc.v
  BY Now
<1>2. PICK l \in Lease : l = IF proc.lease # NoLease THEN proc.lease ELSE table[x]
  BY <1>1, Now
<1>3. proc.pc = "discard" /\ table \in [Sessions -> Lease]
  BY Now DEF DiscardSession, Reached
<1>4. ASSUME l # NoLease, table' = (IF proc.lease # NoLease THEN table ELSE [table EXCEPT ![x] = NoLease]),
             proc' = DiscardLeased(l), UNCHANGED mem
      PROVE  TableInv'
  <2>1. proc.lease # NoLease => LiveLease(proc.lease)
    BY <1>3, Now DEF HandOK, Waiting
  <2>2. table'[x] = NoLease
    <3>1. CASE proc.lease # NoLease
      <4>1. LiveLease(InHand(proc, x))
        BY <1>1, <2>1, <3>1 DEF InHand
      <4> QED
        BY <1>4, <3>1, <4>1, TableIsFree
    <3>2. CASE proc.lease = NoLease
      BY <1>3, <1>4, <3>2
    <3> QED
      BY <3>1, <3>2
  <2>3. LiveLease(l) /\ ~l.slot => OwnerHeld(x)
    <3>1. CASE proc.lease # NoLease
      BY <1>1, <1>2, <1>3, <3>1 DEF TableInv, TableOK, OwnerHeld
    <3>2. CASE proc.lease = NoLease
      BY <1>2, <1>4, <3>2, Now DEF RetainedOK
    <3> QED
      BY <3>1, <3>2
  <2>4. \A s \in Sessions \ {x} : table'[s] = table[s]
    BY <1>3, <1>4
  <2> QED
    BY <1>1, <1>4, <2>2, <2>3, <2>4, DiscardLeasedTable
<1>5. ASSUME l = NoLease, RemoveSessionState(x), UNCHANGED table, NEW ok \in BOOLEAN, proc' = Return(ok, NoLease)
      PROVE  TableInv'
  BY <1>1, <1>2, <1>3, <1>5, RemovedState, ReturnsTable
<1>6. ASSUME l = NoLease, UNCHANGED <<mem, table>>, RecoverySlots < RecoveryLimit \/ OwnerHeld(x), Exists(disk, x, Reference),
             proc' = DiscardLeased(ActiveDiscardLease(x, RecoverySlots < RecoveryLimit))
      PROVE  TableInv'
  <2>0. PICK slot \in BOOLEAN : slot = (RecoverySlots < RecoveryLimit)
    <3>1. (RecoverySlots < RecoveryLimit) \in BOOLEAN
      OBVIOUS
    <3> QED
      BY <3>1, Zenon
  <2>1. PICK m : m = ActiveDiscardLease(x, slot)
    OBVIOUS
  <2>2. m \in Lease /\ m.slot = slot
    <3>1. NewNonce(x) \in Nat
      BY Now, NonceFacts
    <3> QED
      BY <2>1, <3>1 DEF ActiveDiscardLease, Lease, LeaseState
  <2>3. table[x] = NoLease
    BY <1>2, <1>6
  <2> QED
    BY <1>1, <1>6, <2>0, <2>1, <2>2, <2>3, DiscardLeasedTable
<1> QED
  BY <1>1, <1>2, <1>4, <1>5, <1>6 DEF DiscardSession

LEMMA DiscardedTable ==
  ASSUME SessionInv, OneInv, TableInv, Discarded
  PROVE  TableInv'
<1>1. PICK x \in Sessions : x = proc.v
  BY Now
<1>2. proc.pc = "discarded" /\ table \in [Sessions -> Lease] /\ mem \in [Sessions -> Held]
  BY Now DEF Discarded, Reached
<1>3. table[x] = NoLease /\ proc.lease # NoLease
  BY <1>1, <1>2 DEF TableInv, TableOK
<1>4. ASSUME RemoveSessionState(x), NEW ok \in BOOLEAN, proc' = Return(ok, NoLease),
             UNCHANGED table \/ (~ok /\ table' = Retained(x, proc.lease))
      PROVE  TableInv'
  <2>1. \A s \in Sessions \ {x} : table'[s] = table[s]
    BY <1>2, <1>4 DEF Retained
  <2> QED
    BY <1>1, <1>2, <1>3, <1>4, <2>1, RemovedState, ReturnsTable
<1>5. ASSUME OwnerHeld(x), mem' = [mem EXCEPT ![x].lease = proc.lease], proc' = Return(FALSE, NoLease), UNCHANGED table
      PROVE  TableInv'
  <2>1. \A s \in Sessions : mem'[s].at = mem[s].at
    BY <1>2, <1>5 DEF Held
  <2>2. mem'[x].at # "task"
    BY <1>5, <2>1 DEF OwnerHeld
  <2> QED
    BY <1>1, <1>2, <1>5, <2>1, <2>2, ReturnsTable
<1>6. ASSUME ~proc.ok, ~(proc.lease.slot /\ CanRetain(x)), ~OwnerHeld(x)
      PROVE  FALSE
  <2>1. LiveLease(proc.lease)
    BY <1>3, <1>6, Now DEF HandOK, Waiting
  <2>2. proc.lease.slot
    BY <1>1, <1>2, <1>6, <2>1 DEF TableInv, TableOK, OwnerHeld
  <2>3. CanRetain(x)
    BY <1>3, <2>2, Now, RetainRoom DEF SessionInv
  <2> QED
    BY <1>6, <2>2, <2>3
<1> QED
  BY <1>1, <1>4, <1>5, <1>6 DEF Discarded

LEMMA RequestTable ==
  ASSUME SessionInv, OneInv, TableInv, Request, ForkParents = {}
  PROVE  TableInv'
<1>1. PICK c : c = proc'
  OBVIOUS
<1>2. PICK s \in Sessions : \/ LeaseContinueSession(s) \/ LeaseForkSession(s)
                            \/ PersistChatSession(s) \/ RetainFailedSession(s)
                            \/ \E why \in {"cancelled", "ended"} : DiscardStoredSession(s, why)
  BY DEF Request
<1>3. mem \in [Sessions -> Held]
  BY Now
<1>4. CASE LeaseContinueSession(s)
  <2>1. mem' = TakeLease(s) /\ UNCHANGED table /\ mem[s].at \in {"absent", "resident", "hibernated"}
    BY <1>3, <1>4 DEF LeaseContinueSession, Held
  <2>2. \A r \in Sessions : mem'[r].at = mem[r].at /\ table'[r] = table[r]
    BY <2>1, TakenAt
  <2>3. \/ c = Begin("discard", "continue", "cold", s, mem[s].lease)
        \/ mem[s].lease # NoLease /\ c = Begin("attach", "continue", "none", s, mem[s].lease)
        \/ \E pc \in {"lease", "wake"} : \E then, l : c = Begin(pc, "continue", then, s, l)
    BY <1>1, <1>4, <2>1 DEF LeaseContinueSession
  <2>4. CASE c = Begin("discard", "continue", "cold", s, mem[s].lease)
    <3>1. c.pc = "discard" /\ c.v = s /\ c.lease = mem[s].lease
      BY <2>4 DEF Begin, Enter
    <3> QED
      BY <1>1, <2>2, <3>1, DiscardTable
  <2>5. CASE mem[s].lease # NoLease /\ c = Begin("attach", "continue", "none", s, mem[s].lease)
    <3>1. c.pc = "attach" /\ c.v = s
      BY <2>5 DEF Begin, Enter
    <3>2. table[s] = NoLease
      BY <2>5, Now, TableIsFree DEF SessionOK, Waiting
    <3> QED
      BY <1>1, <2>2, <3>1, <3>2 DEF TableInv, TableOK
  <2>6. CASE \E pc \in {"lease", "wake"} : \E then, l : c = Begin(pc, "continue", then, s, l)
    <3>1. c.pc \in {"lease", "wake"}
      BY <2>6 DEF Begin, Enter
    <3> QED
      BY <1>1, <2>2, <3>1, ElsewhereTable
  <2> QED
    BY <2>3, <2>4, <2>5, <2>6
<1>5. CASE LeaseForkSession(s)
  BY <1>5 DEF LeaseForkSession
<1>6. CASE PersistChatSession(s) \/ RetainFailedSession(s)
  <2>1. c.pc \in {"persisted", "retained"}
    BY <1>1, <1>6 DEF PersistChatSession, RetainFailedSession, Begin, Enter
  <2>2. \A r \in Sessions : mem'[r].at = mem[r].at /\ table'[r] = table[r]
    BY <1>3, <1>6 DEF PersistChatSession, RetainFailedSession, TakeLease, Held
  <2> QED
    BY <1>1, <2>1, <2>2, ElsewhereTable
<1>7. CASE \E why \in {"cancelled", "ended"} : DiscardStoredSession(s, why)
  <2>1. mem' = TakeLease(s) /\ UNCHANGED table /\ c.pc = "discard" /\ c.v = s /\ c.lease = mem[s].lease
    BY <1>1, <1>7 DEF DiscardStoredSession, Begin, Enter
  <2> QED
    BY <1>1, <2>1, TakenAt, DiscardTable
<1> QED
  BY <1>2, <1>4, <1>5, <1>6, <1>7

LEMMA IoTable ==
  ASSUME SessionInv, TableInv, ~Starting, IoSucceeds \/ IoFails
  PROVE  TableInv'
<1>1. PICK c : c = proc'
  OBVIOUS
<1>2. UNCHANGED <<mem, table>> /\ c.v = proc.v /\ c.pc = proc.pc /\ (c.ok => proc.ok)
  BY <1>1, Now DEF IoSucceeds, IoFails, CallType
<1>3. CASE IoFails
  <2>1. c.lease = proc.lease
    BY <1>1, <1>3, Now DEF IoFails, CallType
  <2> QED
    BY <1>1, <1>2, <2>1 DEF TableInv, TableOK
<1>4. CASE IoSucceeds
  <2>1. PICK step : step = Head(proc.io)
    OBVIOUS
  <2>2. c.lease = step.lease
    BY <1>1, <1>4, <2>1, Now DEF IoSucceeds, CallType
  <2>3. LeaseTurns(proc.lease, step.lease, proc.pc)
    BY <1>4, <2>1, ScriptTurns
  <2>4. CASE proc.pc \in DiscardPcs
    <3>1. LiveLease(step.lease) /\ ~step.lease.slot => LiveLease(proc.lease) /\ ~proc.lease.slot
      BY <2>3, <2>4, LeaseFacts DEF LeaseTurns, SameLease, LiveLease
    <3>2. proc.lease # NoLease /\ Waiting(proc.lease) => step.lease # NoLease
      BY <2>3, <2>4, LeaseFacts DEF LeaseTurns, SameLease, LiveLease, Waiting
    <3>3. proc.pc = "discarded" => Waiting(proc.lease)
      BY <1>4, Now DEF HandOK, IoSucceeds
    <3> QED
      BY <1>1, <1>2, <2>2, <3>1, <3>2, <3>3 DEF TableInv, TableOK
  <2>5. CASE proc.pc \notin DiscardPcs
    BY <1>1, <1>2, <2>5 DEF TableInv, TableOK
  <2> QED
    BY <2>4, <2>5
<1> QED
  BY <1>3, <1>4

LEMMA StartTable ==
  ASSUME SessionInv, TableInv,
         Crash \/ Panic \/ RecoverQuarantine \/ LoadSessionArchives \/ (Starting /\ (IoSucceeds \/ IoFails))
  PROVE  TableInv'
<1>1. PICK c : c = proc'
  OBVIOUS
<1>2. c.pc \in StartPcs \cup {"idle"}
  <2>1. CASE Crash \/ Panic
    <3>1. c = [Idle EXCEPT !.pc = "recover"]
      BY <1>1, <2>1 DEF Crash, Panic, Start
    <3> QED
      BY <3>1, IdleFacts DEF CallType
  <2>2. CASE RecoverQuarantine \/ LoadSessionArchives
    BY <1>1, <2>2, Now, IdleFacts DEF RecoverQuarantine, LoadSessionArchives, Reached, Call, CallType
  <2>3. CASE Starting /\ (IoSucceeds \/ IoFails)
    BY <1>1, <2>3, Now DEF IoSucceeds, IoFails, Starting, CallType
  <2> QED
    BY <2>1, <2>2, <2>3
<1>3. \A s \in Sessions : mem'[s].at # "task"
  <2>1. CASE Crash \/ Panic
    BY <2>1, AbsentFacts DEF Crash, Panic, Start
  <2>2. CASE ~(Crash \/ Panic)
    <3>1. Starting /\ UNCHANGED mem
      BY <2>2 DEF RecoverQuarantine, LoadSessionArchives, Reached, Starting, IoSucceeds, IoFails
    <3> QED
      BY <3>1, StartNow, AbsentFacts
  <2> QED
    BY <2>1, <2>2
<1> QED
  BY <1>1, <1>2, <1>3 DEF TableInv, TableOK

LEMMA NextTableInv ==
  ASSUME ForkParents = {}
  PROVE  SessionInv /\ OneInv /\ TableInv /\ [Next]_vars => TableInv'
<1> SUFFICES ASSUME SessionInv, OneInv, TableInv, [Next]_vars
             PROVE  TableInv'
  OBVIOUS
<1>1. CASE IoSucceeds \/ IoFails
  BY <1>1, IoTable, StartTable
<1>2. CASE Crash \/ Panic \/ RecoverQuarantine \/ LoadSessionArchives
  BY <1>2, StartTable
<1>3. CASE ServerStep
  BY <1>3, ServerStepTable
<1>4. CASE StoreControl
  BY <1>4, TakeRecoveryLeaseTable, LeasingTable, DiscardSessionTable, DiscardedTable DEF StoreControl
<1>5. CASE Request
  BY <1>5, RequestTable
<1>6. CASE UNCHANGED vars
  BY <1>6 DEF vars, TableInv, TableOK
<1> QED
  BY <1>1, <1>2, <1>3, <1>4, <1>5, <1>6 DEF Next, StoreStep, StoreControl

LEMMA TableInvAlways ==
  ASSUME ForkParents = {}
  PROVE  Spec => [](SessionInv /\ OneInv /\ TableInv)
<1>1. Init => TableInv
  <2> SUFFICES ASSUME Init
               PROVE  TableInv
    OBVIOUS
  <2>1. PICK c : c = proc /\ c.pc = "idle"
    BY IdleFacts DEF Init
  <2> QED
    BY <2>1, AbsentFacts DEF Init, TableInv, TableOK
<1>2. SessionInv /\ OneInv /\ TableInv /\ [Next]_vars => TableInv'
  BY NextTableInv
<1> QED
  BY <1>1, <1>2, OneInvAlways, PTL DEF Spec

\* While no running session is forked, the assertions of discard_leased_session, "a recovery
\* lease has a bounded owner" and "a no-slot discard lease has a bounded owner", never fail:
\* a lease whose discard failed finds its place in the table, or its session in memory.
THEOREM LeaseAlwaysHasOwner ==
  ASSUME ForkParents = {}
  PROVE  Spec => []LeaseHasOwner
<1>1. TableInv => LeaseHasOwner
  BY DEF TableInv, TableOK, LeaseHasOwner
<1> QED
  BY <1>1, TableInvAlways, PTL

-----------------------------------------------------------------------------
(* What a start would load, and the leases *)

\* No start on any of these files loads the session.
Gone(D, s) == \A ns \in D : Recovered(ns, s) = 0

\* What the files say of a lease of s.
OnDisk(ns, D, s, l) ==
  /\ l.state \in {"Active", "Superseded"} => Exists(ns, s, Reference)
  /\ l.state = "Discard" => Gone(D, s) \/ (l.pending /\ Marked(ns, s))

LeaseDisk == ~Starting => \A s \in Sessions : /\ OnDisk(disk, durable, s, mem[s].lease)
                                              /\ OnDisk(disk, durable, s, table[s])
                                              /\ OnDisk(disk, durable, s, InHand(proc, s))

\* A session with no lease and no reference is not loaded, and one without a lease for its
\* discard is not marked.
NoneOf(a, b, c) == ~LiveLease(a) /\ ~LiveLease(b) /\ ~LiveLease(c)
Unmarked(a, b, c) == a.state # "Discard" /\ b.state # "Discard" /\ c.state # "Discard"

NoneInv ==
  ~Starting => \A s \in Sessions :
    /\ NoneOf(mem[s].lease, table[s], InHand(proc, s)) /\ ~Exists(disk, s, Reference) => Gone(durable, s)
    /\ Unmarked(mem[s].lease, table[s], InHand(proc, s)) => \A ns \in durable : ~Marked(ns, s)

\* A discard that succeeds has removed the reference for good.
DiscardInv ==
  proc.pc \in DiscardingPcs =>
    /\ proc.ok => FinalLease(proc.lease, proc.io).state = "Removed"
    /\ proc.lease.state = "Removed" => Gone(durable, proc.v)

GoneInv ==
  /\ \A s \in discarded : Gone(durable, s)
  /\ proc.pc = "persisted" => proc.v \notin discarded

\* A start that has loaded the references has synced both directories.
LoadSteps(io) == /\ Len(io) <= 2
                 /\ Len(io) = 2 => io[1].path = Reference
                 /\ Len(io) # 0 => io[Len(io)].path.intent \in Intent
LoadInv ==
  proc.pc = "load" =>
    /\ LoadSteps(proc.io)
    /\ Len(proc.io) = 1 \/ (Len(proc.io) = 0 /\ proc.ok) => SyncedDir(Reference)
    /\ Len(proc.io) = 0 /\ proc.ok => \A ns \in durable : \A f \in ns.files : f.intent = "Active"

DiskInv == LeaseDisk /\ NoneInv /\ DiscardInv /\ GoneInv /\ LoadInv

\* What an operation does to the files, session by session.
Operates(n, step) ==
  /\ \A s \in Sessions \ {proc.v} : Of(n, s) = Of(disk, s)
  /\ Keeping(step) => /\ Recovered(n, proc.v) = Recovered(disk, proc.v)
                      /\ Marked(n, proc.v) => Marked(disk, proc.v)
  /\ step.op = "move" /\ step.to.intent = "Discard" => Marked(n, proc.v) /\ Recovered(n, proc.v) = 0
  /\ step.op = "publish" /\ ~Marked(disk, proc.v) =>
       ~Marked(n, proc.v) /\ Recovered(n, proc.v) = step.last_used
  /\ step.op = "publish" => Exists(n, proc.v, Reference) /\ (Marked(disk, proc.v) => Marked(n, proc.v))
  /\ step.op = "move" /\ step.to.intent = "Active" => Exists(n, proc.v, Reference)
  /\ Exists(disk, proc.v, Reference) /\ (step.op \in {"move", "remove"} => step.path.intent # "Active") =>
       Exists(n, proc.v, Reference)
  /\ ~Exists(disk, proc.v, Reference) /\ Exists(n, proc.v, Reference) =>
       step.op = "publish" \/ (step.op = "move" /\ step.to.intent = "Active")
  /\ step.op \in {"link", "sync"} => n.files = disk.files
  /\ step.op = "remove" /\ step.path.intent # "Discard" /\ Marked(disk, proc.v) => Marked(n, proc.v)

\* The next operation.
LEMMA NextOperation ==
  ASSUME SessionInv, OneInv, FilesInv, DiskInv, IoSucceeds, NEW step, step = Head(proc.io), NEW n, n = disk'
  PROVE  /\ step \in Step /\ step = proc.io[1] /\ CanDo(step)
         /\ step.op \in {"move", "remove", "sync", "link", "publish"}
         /\ step.op \in {"link", "publish"} => proc.pc = "persisted" /\ step.last_used = clock
         /\ OperationOK(disk, proc.v, step) /\ Operates(n, step)
         /\ proc'.pc = proc.pc /\ proc'.top = proc.top /\ proc'.then = proc.then /\ proc'.s = proc.s
         /\ proc'.v = proc.v /\ proc'.ok = proc.ok /\ proc'.lease = step.lease /\ proc'.io = Tail(proc.io)
         /\ UNCHANGED <<mem, table, clock, kept, discarded>>
         /\ durable' = IF step.op = "sync" THEN SyncDirectory(step.path) ELSE durable \cup {n}
         /\ step.op = "sync" => n = disk
<1>1. /\ step \in Step /\ step = proc.io[1] /\ CanDo(step) /\ step.op # "refuse"
      /\ step.op = "move" => step.to.intent # "Blob"
      /\ OperationOK(disk, proc.v, step)
      /\ step.op \in {"link", "publish"} => proc.pc = "persisted" /\ step.last_used = clock
  BY ScriptOperation, StartOperation
<1>2. /\ disk' = Effect(step) /\ disk' \in Namespace
      /\ proc'.pc = proc.pc /\ proc'.top = proc.top /\ proc'.then = proc.then /\ proc'.s = proc.s
      /\ proc'.v = proc.v /\ proc'.ok = proc.ok /\ proc'.lease = step.lease /\ proc'.io = Tail(proc.io)
      /\ UNCHANGED <<mem, table, clock>>
  BY <1>1, IoSucceedsTypes
<1>3. step.op \in {"move", "remove", "sync", "link", "publish"}
  BY <1>1 DEF Step
<1>4. PICK v \in Sessions : v = proc.v
  BY Now
<1>5. FilesOK(disk, v) /\ disk \in durable /\ disk \in Namespace
  BY <1>4, Now, DiskFacts DEF FilesInv, FileInv, TypeInv, SessionInv
<1>6. ASSUME step.op = "remove"
      PROVE  RemoveOK(disk, v, step.path)
  <2>1. proc.io \in Seq(Step) /\ proc.io # <<>> /\ 1 \in 1 .. Len(proc.io)
    BY Now, HeadFacts DEF IoSucceeds, CallType
  <2>2. proc.pc # "persisted"
    <3>1. ~Starting /\ proc.pc = "persisted" => step.op # "remove"
      <4> SUFFICES ASSUME proc.pc = "persisted"
                   PROVE  step.op # "remove"
        OBVIOUS
      <4>1. PICK k : PersistStep(proc.io[1], k, clock)
        BY <2>1 DEF FilesInv, PersistInv, PersistOK
      <4>2. k = 1 \/ k = 2 \/ k = 3 \/ k = 4
        BY <4>1 DEF PersistStep
      <4> QED
        BY <1>1, <4>1, <4>2 DEF PersistStep
    <3> QED
      BY <1>6, <3>1 DEF Starting
  <2>3. SoundStep(disk, v, proc.io, 1)
    BY <1>4, <2>1, <2>2 DEF FilesInv, SoundInv, Sound
  <2>4. /\ step.path.intent = "Restore" => Exists(disk, v, Reference)
        /\ step.path.intent = "Discard" => ~Exists(disk, v, Reference)
    <3>1. 1 .. 1 - 1 = {}
      OBVIOUS
    <3> QED
      BY <1>1, <1>6, <2>3, <3>1 DEF SoundStep, RefGone
  <2>5. ASSUME step.path.intent = "Active"
        PROVE  Recovered(disk, v) = 0
    <3>1. CASE Starting
      <4>1. Marked(disk, v)
        BY <1>1, <1>4, <1>6, <2>1, <2>5, <3>1 DEF FilesInv, SoundInv, StartDiscards
      <4> QED
        BY <1>5, <4>1, RecoveredFacts
    <3>2. CASE ~Starting
      <4>1. Discards(proc.lease, proc.io)
        BY <3>2 DEF FilesInv, SoundInv
      <4>2. DiscardStep(proc.lease, step)
        BY <1>1, <2>1, <4>1, DiscardsTail
      <4>3. proc.lease.state = "Discard" /\ ~proc.lease.pending
        BY <1>6, <2>5, <4>2 DEF DiscardStep
      <4>4. OnDisk(disk, durable, v, proc.lease)
        BY <1>4, <3>2 DEF DiskInv, LeaseDisk, InHand
      <4> QED
        BY <1>5, <4>3, <4>4 DEF OnDisk, Gone
    <3> QED
      BY <3>1, <3>2
  <2> QED
    BY <2>4, <2>5 DEF RemoveOK
<1>7. \A s \in Sessions \ {proc.v} : Of(n, s) = Of(disk, s)
  BY <1>1, <1>2, <1>4, <1>5, OperationFiles
<1>8. ASSUME ~Exists(disk, v, Reference), Exists(n, v, Reference)
      PROVE  step.op = "publish" \/ (step.op = "move" /\ step.to.intent = "Active")
  BY <1>1, <1>2, <1>4, <1>8, StaysGone
<1>9. step.op \in {"link", "sync"} => n.files = disk.files
  BY <1>1, <1>2, EffectFacts
<1>9a. ASSUME step.op = "remove", step.path.intent # "Discard", Marked(disk, v)
       PROVE  Marked(n, v)
  <2>1. n = Drop(disk, v, step.path)
    BY <1>1, <1>2, <1>4, <1>9a, EffectFacts
  <2>2. n.files = disk.files \ At(disk, v, step.path)
    <3>1. IsFiniteSet(disk.files) /\ step.path \in Paths
      BY <1>1, Now, DiskFacts DEF Step, TypeInv
    <3> QED
      BY <1>5, <2>1, <3>1, DropFacts
  <2> QED
    BY <1>9a, <2>2 DEF Marked, At
<1>10. Operates(n, step)
  <2>1. Effect(step) \in Namespace /\ (step.op = "remove" => RemoveOK(disk, proc.v, step.path)) /\ FilesOK(disk, proc.v)
    BY <1>2, <1>4, <1>5, <1>6
  <2>2. /\ Keeping(step) => /\ Recovered(Effect(step), proc.v) = Recovered(disk, proc.v)
                            /\ Marked(Effect(step), proc.v) => Marked(disk, proc.v)
        /\ step.op = "move" /\ step.to.intent = "Discard" =>
             Marked(Effect(step), proc.v) /\ Recovered(Effect(step), proc.v) = 0
        /\ step.op = "publish" /\ ~Marked(disk, proc.v) =>
             ~Marked(Effect(step), proc.v) /\ Recovered(Effect(step), proc.v) = step.last_used
        /\ step.op = "publish" => Exists(Effect(step), proc.v, Reference)
                                  /\ (Marked(disk, proc.v) => Marked(Effect(step), proc.v))
        /\ step.op = "move" /\ step.to.intent = "Active" => Exists(Effect(step), proc.v, Reference)
        /\ Exists(disk, proc.v, Reference) /\ (step.op \in {"move", "remove"} => step.path.intent # "Active")
             => Exists(Effect(step), proc.v, Reference)
    BY <1>1, <2>1, StepRecovered
  <2> QED
    BY <1>2, <1>4, <1>7, <1>8, <1>9, <1>9a, <2>2 DEF Operates
<1>11. /\ UNCHANGED <<kept, discarded>>
       /\ durable' = IF step.op = "sync" THEN SyncDirectory(step.path) ELSE durable \cup {n}
  BY DEF IoSucceeds, history_vars
<1>12. step.op = "sync" => n = disk
  BY <1>1, <1>2, EffectFacts
<1> QED
  BY <1>1, <1>2, <1>3, <1>10, <1>11, <1>12
\* What a start does not load it does not load after an operation either, unless it publishes.
LEMMA GoneStays ==
  ASSUME SessionInv, NEW n, NEW D, NEW step, Operates(n, step), D \subseteq durable \cup {n},
         NEW s \in Sessions, Gone(durable, s), step.op # "publish" \/ s # proc.v
  PROVE  Gone(D, s)
<1>1. disk \in durable
  BY Now DEF TypeInv
<1>2. Recovered(n, s) = 0
  <2>1. CASE s # proc.v
    <3>1. Of(n, s) = Of(disk, s)
      BY <2>1 DEF Operates
    <3> QED
      BY <1>1, <3>1, SameRecovered DEF Gone
  <2>2. CASE s = proc.v
    BY <1>1, <2>2 DEF Operates, Keeping, Gone
  <2> QED
    BY <2>1, <2>2
<1> QED
  BY <1>2 DEF Gone

\* Sessions that the call is not about.
LEMMA OtherSessions ==
  ASSUME SessionInv, NEW n, NEW D, NEW step, Operates(n, step), D \subseteq durable \cup {n},
         NEW s \in Sessions, s # proc.v, NEW a, NEW b,
         OnDisk(disk, durable, s, a), OnDisk(disk, durable, s, b),
         NoneOf(a, b, NoLease) /\ ~Exists(disk, s, Reference) => Gone(durable, s),
         Unmarked(a, b, NoLease) => \A ns \in durable : ~Marked(ns, s)
  PROVE  /\ OnDisk(n, D, s, a) /\ OnDisk(n, D, s, b)
         /\ NoneOf(a, b, NoLease) /\ ~Exists(n, s, Reference) => Gone(D, s)
         /\ Unmarked(a, b, NoLease) => \A ns \in D : ~Marked(ns, s)
<1>1. Of(n, s) = Of(disk, s)
  BY DEF Operates
<1>2. (Marked(n, s) <=> Marked(disk, s)) /\ (Exists(n, s, Reference) <=> Exists(disk, s, Reference))
  BY <1>1, SameRecovered
<1>3. Gone(durable, s) => Gone(D, s)
  BY GoneStays
<1>4. disk \in durable
  BY Now DEF TypeInv
<1> QED
  BY <1>2, <1>3, <1>4 DEF OnDisk

\* What the step leaves true of the session of the call.
HandDisk(n, D, v, a, b, m) ==
  /\ OnDisk(n, D, v, a) /\ OnDisk(n, D, v, b) /\ OnDisk(n, D, v, m)
  /\ NoneOf(a, b, m) /\ ~Exists(n, v, Reference) => Gone(D, v)
  /\ Unmarked(a, b, m) => \A ns \in D : ~Marked(ns, v)

LEMMA OnDiskNone ==
  ASSUME NEW ns, NEW D, NEW s, NEW l, ~LiveLease(l)
  PROVE  OnDisk(ns, D, s, l) /\ l.state # "Discard"
BY DEF OnDisk, LiveLease

\* A persist: its session has no lease to discard.
LEMMA PersistDisk ==
  ASSUME SessionInv, OneInv, FilesInv, TableInv, DiskInv, IoSucceeds, proc.pc = "persisted",
         NEW step, step = Head(proc.io), NEW n, n = disk', NEW D, D = durable'
  PROVE  HandDisk(n, D, proc.v, mem[proc.v].lease, table[proc.v], step.lease)
<1>1. /\ CanDo(step) /\ step.op \in {"move", "remove", "sync", "link", "publish"} /\ Operates(n, step)
      /\ step = proc.io[1] /\ step \in Step
      /\ durable' = IF step.op = "sync" THEN SyncDirectory(step.path) ELSE durable \cup {n}
  BY NextOperation
<1>2. D \subseteq durable \cup {n}
  BY <1>1 DEF SyncDirectory
<1>3. PICK v \in Sessions : v = proc.v
  BY Now
<1>4. ~Starting /\ proc.lease = NoLease /\ step.lease = NoLease
  <2>1. ~Starting /\ proc.lease = NoLease /\ proc.io # <<>>
    BY QuietFacts DEF Starting, IoSucceeds
  <2> QED
    BY <1>1, <2>1, StepKinds
<1>5. step.op \in {"link", "sync", "publish"}
  <2>1. proc.io \in Seq(Step) /\ proc.io # <<>> /\ 1 \in 1 .. Len(proc.io)
    BY Now, HeadFacts DEF IoSucceeds, CallType
  <2>2. PICK k : PersistStep(proc.io[1], k, clock)
    BY <2>1 DEF FilesInv, PersistInv, PersistOK
  <2>3. k = 1 \/ k = 2 \/ k = 3 \/ k = 4
    BY <2>2 DEF PersistStep
  <2> QED
    BY <1>1, <2>2, <2>3 DEF PersistStep
<1>6. mem[v].lease.state # "Discard" /\ table[v].state # "Discard"
  <2>1. mem[v].at = "task" /\ SessionOK(mem[v])
    BY <1>3, Now DEF WhereOK
  <2> QED
    BY <2>1 DEF SessionOK, DiscardPending, TableInv, TableOK
<1>7. Exists(disk, v, Reference) => Exists(n, v, Reference)
  BY <1>1, <1>3, <1>5 DEF Operates
<1>8. /\ OnDisk(disk, durable, v, mem[v].lease) /\ OnDisk(disk, durable, v, table[v]) /\ disk \in durable
      /\ NoneOf(mem[v].lease, table[v], NoLease) /\ ~Exists(disk, v, Reference) => Gone(durable, v)
      /\ \A ns \in durable : ~Marked(ns, v)
  <2>1. InHand(proc, v) = NoLease
    BY <1>4 DEF InHand
  <2> QED
    BY <1>4, <1>6, <2>1, Now, LeaseFacts DEF DiskInv, LeaseDisk, NoneInv, Unmarked, TypeInv
<1>9. step.op = "publish" => Exists(n, v, Reference)
  BY <1>1, <1>3 DEF Operates
<1>10. step.op # "publish" /\ Gone(durable, v) => Gone(D, v)
  BY <1>1, <1>2, GoneStays
<1>11. ~Marked(n, v)
  BY <1>1, <1>3, <1>5, <1>8 DEF Operates, Keeping
<1>12. OnDisk(n, D, v, mem[v].lease) /\ OnDisk(n, D, v, table[v]) /\ OnDisk(n, D, v, NoLease)
  BY <1>6, <1>7, <1>8, LeaseFacts DEF OnDisk
<1>13. NoneOf(mem[v].lease, table[v], NoLease) /\ ~Exists(n, v, Reference) => Gone(D, v)
  BY <1>7, <1>8, <1>9, <1>10
<1>14. \A ns \in D : ~Marked(ns, v)
  BY <1>2, <1>8, <1>11
<1> QED
  BY <1>3, <1>4, <1>12, <1>13, <1>14 DEF HandDisk

\* An operation with no lease in hand, and lease_active_reference.
LEMMA NoHandDisk ==
  ASSUME SessionInv, OneInv, FilesInv, DiskInv, IoSucceeds, proc.pc # "persisted", ~Starting, proc.lease = NoLease,
         NEW step, step = Head(proc.io), NEW n, n = disk', NEW D, D = durable'
  PROVE  HandDisk(n, D, proc.v, mem[proc.v].lease, table[proc.v], step.lease)
<1>1. /\ CanDo(step) /\ step.op \in {"move", "remove", "sync", "link", "publish"} /\ Operates(n, step)
      /\ step = proc.io[1] /\ step \in Step /\ (step.op \in {"link", "publish"} => proc.pc = "persisted")
      /\ durable' = IF step.op = "sync" THEN SyncDirectory(step.path) ELSE durable \cup {n}
      /\ step.op = "sync" => n = disk
  BY NextOperation
<1>2. D \subseteq durable \cup {n} /\ proc.io # <<>>
  BY <1>1 DEF SyncDirectory, IoSucceeds
<1>3. PICK v \in Sessions : v = proc.v
  BY Now
<1>4. /\ OnDisk(disk, durable, v, mem[v].lease) /\ OnDisk(disk, durable, v, table[v]) /\ disk \in durable
      /\ NoneOf(mem[v].lease, table[v], NoLease) /\ ~Exists(disk, v, Reference) => Gone(durable, v)
      /\ Unmarked(mem[v].lease, table[v], NoLease) => \A ns \in durable : ~Marked(ns, v)
  <2>1. InHand(proc, v) = NoLease
    BY DEF InHand
  <2> QED
    BY <2>1, Now DEF DiskInv, LeaseDisk, NoneInv, TypeInv
<1>5. CASE proc.pc = "leasing"
  <2>1. MovesLease(NoLease, step) /\ step.to.intent = "Restore"
    BY <1>1, <1>2, <1>5, StepKinds
  <2>2. step.lease.state = "Restore" /\ step.op = "move"
    BY <2>1, LeaseFacts DEF MovesLease
  <2>3. mem[v].lease = NoLease /\ table[v] = NoLease
    BY <1>3, <1>5, NoneWhenLeasing
  <2>4. \A ns \in D : ~Marked(ns, v)
    <3>1. \A ns \in durable : ~Marked(ns, v)
      BY <1>4, <2>3, LeaseFacts DEF Unmarked
    <3> QED
      BY <1>1, <1>2, <1>3, <1>4, <2>1, <2>2, <3>1 DEF Operates, Keeping
  <2>5. OnDisk(n, D, v, NoLease) /\ OnDisk(n, D, v, step.lease) /\ LiveLease(step.lease)
    BY <2>2, LeaseFacts DEF OnDisk, LiveLease
  <2> QED
    BY <1>3, <2>3, <2>4, <2>5 DEF HandDisk, NoneOf
<1>6. CASE proc.pc # "leasing"
  <2>1. step.lease = NoLease /\ (Sames(NoLease, step) \/ MovesLease(NoLease, step) \/ Ends(NoLease, step, proc.io))
        /\ ~MovesLease(NoLease, step)
    BY <1>1, <1>2, <1>6, StepKinds
  <2>2. step.op \in {"sync", "remove"}
    BY <1>1, <2>1, LeaseFacts DEF Sames, Ends
  <2>3. step.op = "remove" => step.path.intent \notin {"Active", "Discard"}
    <3>1. proc.io \in Seq(Step) /\ Discards(NoLease, proc.io)
      BY Now DEF FilesInv, SoundInv, CallType
    <3>2. DiscardStep(NoLease, step)
      BY <1>1, <1>2, <3>1, DiscardsTail
    <3> QED
      BY <3>2, LeaseFacts DEF DiscardStep
  <2>4. /\ Exists(n, v, Reference) <=> Exists(disk, v, Reference)
        /\ Marked(n, v) <=> Marked(disk, v)
    BY <1>1, <1>3, <2>2, <2>3 DEF Operates, Keeping
  <2>5. Gone(durable, v) => Gone(D, v)
    BY <1>1, <1>2, <2>2, GoneStays
  <2>6. OnDisk(n, D, v, mem[v].lease) /\ OnDisk(n, D, v, table[v]) /\ OnDisk(n, D, v, NoLease)
    BY <1>4, <2>4, <2>5, LeaseFacts DEF OnDisk
  <2>7. Unmarked(mem[v].lease, table[v], NoLease) => \A ns \in D : ~Marked(ns, v)
    BY <1>2, <1>4, <2>4
  <2> QED
    BY <1>3, <1>4, <2>1, <2>4, <2>5, <2>6, <2>7 DEF HandDisk
<1> QED
  BY <1>5, <1>6

\* A sync of the quarantine makes its marks durable.
LEMMA SyncMarks ==
  ASSUME NEW path, path.intent \in Intent, NEW ns \in SyncDirectory(path), NEW s
  PROVE  ns \in durable /\ (Marked(ns, s) <=> Marked(disk, s))
<1>1. Directory(ns, path) = Directory(disk, path) /\ ns \in durable
  BY DEF SyncDirectory
<1>2. {f \in ns.files : f.intent # "Active"} = {f \in disk.files : f.intent # "Active"}
  BY <1>1 DEF Directory, Intent
<1> QED
  BY <1>1, <1>2 DEF Marked

\* An operation with the live lease of its session.
LEMMA LiveHandDisk ==
  ASSUME SessionInv, OneInv, FilesInv, DiskInv, IoSucceeds, proc.pc # "persisted", ~Starting,
         LiveLease(proc.lease), NEW step, step = Head(proc.io), NEW n, n = disk', NEW D, D = durable'
  PROVE  HandDisk(n, D, proc.v, mem[proc.v].lease, table[proc.v], step.lease)
<1>1. /\ CanDo(step) /\ step.op \in {"move", "remove", "sync", "link", "publish"} /\ Operates(n, step)
      /\ step = proc.io[1] /\ step \in Step /\ OperationOK(disk, proc.v, step)
      /\ step.op \in {"link", "publish"} => proc.pc = "persisted"
      /\ durable' = IF step.op = "sync" THEN SyncDirectory(step.path) ELSE durable \cup {n}
      /\ step.op = "sync" => n = disk
  BY NextOperation
<1>2. D \subseteq durable \cup {n} /\ proc.io # <<>> /\ (step.op = "sync" => D = SyncDirectory(step.path))
  BY <1>1 DEF SyncDirectory, IoSucceeds
<1>3. PICK v \in Sessions : v = proc.v
  BY Now
<1>4. PICK l \in Lease : l = proc.lease
  BY Now
<1>5. PICK k \in Lease : k = step.lease
  BY <1>1 DEF Step
<1>6. /\ OnDisk(disk, durable, v, l) /\ disk \in durable
      /\ l.state # "Discard" => \A ns \in durable : ~Marked(ns, v)
      /\ ~LiveLease(mem[v].lease) /\ ~LiveLease(table[v])
      /\ mem[v].lease.state # "Discard" /\ table[v].state # "Discard"
  <2>1. InHand(proc, v) = l
    BY <1>3, <1>4 DEF InHand
  <2>2. ~LiveLease(mem[v].lease) /\ ~LiveLease(table[v])
    BY <1>3, <1>4, <2>1 DEF OneInv, One
  <2>3. mem[v].lease.state # "Discard" /\ table[v].state # "Discard"
    BY <2>2 DEF LiveLease
  <2>4. disk \in durable
    BY Now DEF TypeInv
  <2> QED
    BY <2>1, <2>2, <2>3, <2>4 DEF DiskInv, LeaseDisk, NoneInv, Unmarked
<1>7. OnDisk(n, D, v, mem[v].lease) /\ OnDisk(n, D, v, table[v])
  BY <1>6, OnDiskNone
<1>8. DiscardStep(l, step)
  <2>1. proc.io \in Seq(Step) /\ Discards(l, proc.io)
    BY <1>4, Now DEF FilesInv, SoundInv, CallType
  <2> QED
    BY <1>1, <1>2, <2>1, DiscardsTail
<1>9. SUFFICES /\ OnDisk(n, D, v, k)
               /\ ~LiveLease(k) /\ ~Exists(n, v, Reference) => Gone(D, v)
               /\ k.state # "Discard" => \A ns \in D : ~Marked(ns, v)
  BY <1>3, <1>5, <1>6, <1>7 DEF HandDisk, NoneOf, Unmarked
<1>10. Gone(durable, v) => Gone(D, v)
  <2>1. step.op # "publish"
    BY <1>1
  <2> QED
    BY <1>1, <1>2, <2>1, GoneStays
<1>11. PlaceOf(l).intent = l.state /\ l.state \in Intent \cup {"Active"}
  BY <1>4, PlaceIntent
<1>12. Sames(l, step) \/ MovesLease(l, step) \/ Ends(l, step, proc.io)
  BY <1>1, <1>2, <1>4, StepKinds
<1>13. CASE Sames(l, step)
  <2>1. step.op \in {"sync", "remove"} /\ k.state = l.state /\ LiveLease(k)
    BY <1>1, <1>4, <1>5, <1>13 DEF Sames, SameLease, LiveLease
  <2>2. k.state \in {"Active", "Superseded"} => Exists(n, v, Reference)
    <3>1. l.state \in {"Active", "Superseded"} => Exists(disk, v, Reference)
      BY <1>6 DEF OnDisk
    <3>2. l.state \in {"Active", "Superseded"} /\ step.op = "remove" => step.path.intent # "Active"
      BY <1>8 DEF DiscardStep
    <3> QED
      BY <1>1, <1>3, <2>1, <3>1, <3>2 DEF Operates
  <2>3. ASSUME k.state = "Discard"
        PROVE  Gone(D, v) \/ (k.pending /\ Marked(n, v))
    <3>1. Gone(durable, v) \/ (l.pending /\ Marked(disk, v))
      BY <1>6, <2>1, <2>3 DEF OnDisk
    <3>2. CASE l.pending /\ Marked(disk, v) /\ k.pending
      <4>1. step.op = "remove" => step.path.intent \notin {"Active", "Discard"}
        BY <1>8, <3>2 DEF DiscardStep
      <4> QED
        BY <1>1, <1>3, <2>1, <3>2, <4>1 DEF Operates
    <3>3. CASE l.pending /\ Marked(disk, v) /\ ~k.pending
      <4>1. step.op = "sync" /\ step.path.intent \in Intent
        BY <1>5, <1>8, <2>3, <3>3 DEF DiscardStep
      <4>2. \A ns \in D : Marked(ns, v)
        BY <1>2, <3>3, <4>1, SyncMarks
      <4> QED
        BY <4>2 DEF Gone, Recovered
    <3> QED
      BY <1>10, <3>1, <3>2, <3>3
  <2>4. ASSUME k.state # "Discard"
        PROVE  \A ns \in D : ~Marked(ns, v)
    <3>1. \A ns \in durable : ~Marked(ns, v)
      BY <1>6, <2>1, <2>4
    <3>2. ~Marked(n, v)
      BY <1>1, <1>3, <1>6, <2>1, <3>1 DEF Operates, Keeping
    <3> QED
      BY <1>2, <3>1, <3>2
  <2> QED
    BY <2>1, <2>2, <2>3, <2>4 DEF OnDisk
<1>14. CASE MovesLease(l, step)
  <2>1. /\ step.op = "move" /\ step.to = PlaceOf(k) /\ step.path = PlaceOf(l)
        /\ k.state \in {"Restore", "Active", "Superseded", "Discard"}
    BY <1>4, <1>5, <1>14, LeaseFacts DEF MovesLease
  <2>2. LiveLease(k) /\ step.to.intent = k.state /\ step.path.intent = l.state
    BY <1>5, <1>11, <2>1, PlaceIntent DEF LiveLease
  <2>3. MoveOK(disk, v, step.path, step.to)
    BY <1>1, <1>3, <2>1 DEF OperationOK
  <2>4. k.state \in {"Active", "Superseded"} => Exists(n, v, Reference)
    <3>1. k.state = "Superseded" => step.path.intent = "Restore" /\ Exists(disk, v, Reference)
      BY <2>2, <2>3 DEF MoveOK
    <3> QED
      BY <1>1, <1>3, <2>1, <2>2, <3>1 DEF Operates
  <2>5. ASSUME k.state = "Discard"
        PROVE  Gone(D, v) \/ (k.pending /\ Marked(n, v))
    <3>1. Marked(n, v)
      BY <1>1, <1>3, <2>1, <2>2, <2>5 DEF Operates
    <3>2. ~k.pending => l.state = "Discard" /\ ~l.pending
      BY <1>5, <1>8, <2>1, <2>5 DEF DiscardStep
    <3>3. ~k.pending => Gone(durable, v)
      BY <1>6, <3>2 DEF OnDisk
    <3>4. k.pending \in BOOLEAN
      BY <1>5 DEF Lease
    <3> QED
      BY <1>10, <3>1, <3>3, <3>4
  <2>6. ASSUME k.state # "Discard"
        PROVE  \A ns \in D : ~Marked(ns, v)
    <3>1. l.state # "Discard"
      BY <2>1, <2>2, <2>3, <2>6 DEF MoveOK
    <3>2. \A ns \in durable : ~Marked(ns, v)
      BY <1>6, <3>1
    <3>3. ~Marked(n, v)
      BY <1>1, <1>3, <1>6, <2>1, <2>2, <2>6, <3>2 DEF Operates, Keeping
    <3> QED
      BY <1>2, <3>2, <3>3
  <2> QED
    BY <2>2, <2>4, <2>5, <2>6 DEF OnDisk
<1>15. CASE Ends(l, step, proc.io)
  <2>1. step.op = "sync" /\ k.state = "Removed" /\ ~Exists(disk, v, PlaceOf(l)) /\ n = disk
    BY <1>1, <1>3, <1>5, <1>15 DEF Ends
  <2>2. /\ l.state \in {"Superseded", "Discard"} /\ step.path.intent \in Intent
        /\ l.state = "Discard" => ~l.pending
    BY <1>5, <1>8, <2>1 DEF DiscardStep
  <2>3. OnDisk(n, D, v, k)
    BY <2>1 DEF OnDisk
  <2>4. ~Exists(n, v, Reference) => Gone(D, v)
    BY <1>6, <1>10, <2>1, <2>2 DEF OnDisk
  <2>5. \A ns \in D : ~Marked(ns, v)
    <3>1. ~Marked(disk, v)
      <4>1. CASE l.state = "Superseded"
        BY <1>6, <4>1
      <4>2. CASE l.state = "Discard"
        <5>1. SUFFICES ASSUME Marked(disk, v)
                       PROVE  FALSE
          OBVIOUS
        <5>2. PICK f \in disk.files : f.session = v /\ f.intent = "Discard"
          BY <5>1 DEF Marked
        <5>3. f \in Aside(disk, proc.v)
          BY <1>3, <5>2 DEF Aside, Of
        <5>4. proc.lease.nonce = f.nonce
          BY <1>4, <5>3, AsideLease
        <5>5. PlaceOf(l).nonce = l.nonce /\ PlaceOf(l).intent = "Discard"
          BY <4>2 DEF PlaceOf, Quarantine
        <5>6. f \in At(disk, v, PlaceOf(l))
          BY <1>4, <5>2, <5>4, <5>5 DEF At
        <5> QED
          BY <2>1, <5>6 DEF Exists
      <4> QED
        BY <2>2, <4>1, <4>2
    <3> QED
      BY <1>2, <2>1, <2>2, <3>1, SyncMarks
  <2> QED
    BY <2>3, <2>4, <2>5
<1> QED
  BY <1>12, <1>13, <1>14, <1>15

\* An operation keeps the leases and the files in step.
LEMMA LeasesStep ==
  ASSUME SessionInv, OneInv, FilesInv, TableInv, DiskInv, IoSucceeds
  PROVE  LeaseDisk' /\ NoneInv'
<1>1. PICK step : step = Head(proc.io)
  OBVIOUS
<1>2. PICK n : n = disk'
  OBVIOUS
<1>3. PICK D : D = durable'
  OBVIOUS
<1>4. /\ CanDo(step) /\ Operates(n, step) /\ step = proc.io[1] /\ step \in Step
      /\ proc'.pc = proc.pc /\ proc'.v = proc.v /\ proc'.lease = step.lease
      /\ mem' = mem /\ table' = table
      /\ durable' = IF step.op = "sync" THEN SyncDirectory(step.path) ELSE durable \cup {n}
  BY <1>1, <1>2, NextOperation
<1>5. D \subseteq durable \cup {n} /\ proc.io # <<>>
  BY <1>3, <1>4 DEF SyncDirectory, IoSucceeds
<1>6. PICK v \in Sessions : v = proc.v
  BY Now
<1>7. SUFFICES ASSUME ~Starting
               PROVE  \A s \in Sessions : HandDisk(n, D, s, mem[s].lease, table[s], InHand(proc', s))
  <2>1. Starting' <=> Starting
    BY <1>4 DEF Starting
  <2> QED
    BY <1>2, <1>3, <1>4, <1>7, <2>1 DEF LeaseDisk, NoneInv, HandDisk
<1>8. HandDisk(n, D, v, mem[v].lease, table[v], step.lease)
  <2>1. proc.lease = NoLease \/ LiveLease(proc.lease)
    BY <1>1, <1>4, <1>5, <1>7, StepKinds DEF Waiting
  <2>2. CASE proc.pc = "persisted"
    BY <1>1, <1>2, <1>3, <1>6, <2>2, PersistDisk
  <2>3. CASE proc.pc # "persisted" /\ proc.lease = NoLease
    BY <1>1, <1>2, <1>3, <1>6, <1>7, <2>3, NoHandDisk
  <2>4. CASE proc.pc # "persisted" /\ LiveLease(proc.lease)
    BY <1>1, <1>2, <1>3, <1>6, <1>7, <2>4, LiveHandDisk
  <2> QED
    BY <2>1, <2>2, <2>3, <2>4
<1>9. ASSUME NEW s \in Sessions, s # v
      PROVE  HandDisk(n, D, s, mem[s].lease, table[s], NoLease)
  <2>1. InHand(proc, s) = NoLease
    BY <1>6, <1>9 DEF InHand
  <2>2. /\ OnDisk(disk, durable, s, mem[s].lease) /\ OnDisk(disk, durable, s, table[s])
        /\ NoneOf(mem[s].lease, table[s], NoLease) /\ ~Exists(disk, s, Reference) => Gone(durable, s)
        /\ Unmarked(mem[s].lease, table[s], NoLease) => \A ns \in durable : ~Marked(ns, s)
    BY <1>7, <2>1 DEF DiskInv, LeaseDisk, NoneInv
  <2>3. PICK a \in Lease : a = mem[s].lease
    BY Now
  <2>4. PICK b \in Lease : b = table[s]
    BY Now
  <2>5. /\ OnDisk(n, D, s, a) /\ OnDisk(n, D, s, b)
        /\ NoneOf(a, b, NoLease) /\ ~Exists(n, s, Reference) => Gone(D, s)
        /\ Unmarked(a, b, NoLease) => \A ns \in D : ~Marked(ns, s)
    BY <1>4, <1>5, <1>6, <1>9, <2>2, <2>3, <2>4, OtherSessions
  <2>6. OnDisk(n, D, s, NoLease)
    BY LeaseFacts, OnDiskNone
  <2> QED
    BY <2>3, <2>4, <2>5, <2>6 DEF HandDisk
<1> QED
  <2>1. \A s \in Sessions : InHand(proc', s) = IF s = v THEN step.lease ELSE NoLease
    BY <1>4, <1>6 DEF InHand
  <2> QED
    BY <1>8, <1>9, <2>1

\* An operation of a discard, and of any call after one.
LEMMA DiscardStepGone ==
  ASSUME SessionInv, OneInv, FilesInv, TableInv, DiskInv, IoSucceeds
  PROVE  DiscardInv' /\ GoneInv'
<1>1. PICK step : step = Head(proc.io)
  OBVIOUS
<1>2. PICK n : n = disk'
  OBVIOUS
<1>3. PICK D : D = durable'
  OBVIOUS
<1>4. /\ CanDo(step) /\ Operates(n, step) /\ step = proc.io[1] /\ step \in Step
      /\ proc'.pc = proc.pc /\ proc'.v = proc.v /\ proc'.lease = step.lease
      /\ proc'.ok = proc.ok /\ proc'.io = Tail(proc.io)
      /\ mem' = mem /\ table' = table /\ discarded' = discarded
      /\ durable' = IF step.op = "sync" THEN SyncDirectory(step.path) ELSE durable \cup {n}
      /\ step.op \in {"link", "publish"} => proc.pc = "persisted"
  BY <1>1, <1>2, NextOperation
<1>5. D \subseteq durable \cup {n} /\ proc.io # <<>>
  BY <1>3, <1>4 DEF SyncDirectory, IoSucceeds
<1>6. PICK v \in Sessions : v = proc.v
  BY Now
<1>7. PICK l \in Lease : l = proc.lease
  BY Now
<1>8. ASSUME NEW s \in Sessions, Gone(durable, s), step.op # "publish" \/ s # proc.v
      PROVE  Gone(D, s)
  BY <1>4, <1>5, <1>8, GoneStays
<1>9. DiscardInv'
  <2>1. SUFFICES ASSUME proc.pc \in DiscardingPcs
                 PROVE  /\ proc.ok => FinalLease(step.lease, Tail(proc.io)).state = "Removed"
                        /\ step.lease.state = "Removed" => Gone(D, v)
    BY <1>3, <1>4, <1>6 DEF DiscardInv
  <2>2. proc.io \in Seq(Step) /\ ~Starting /\ proc.pc # "persisted" /\ proc.pc # "leasing"
    BY <2>1, Now DEF CallType, Starting, DiscardingPcs
  <2>3. FinalLease(step.lease, Tail(proc.io)) = FinalLease(l, proc.io)
    BY <1>4, <1>5, <2>2, FinalTail
  <2>4. ASSUME step.lease.state = "Removed"
        PROVE  Gone(D, v)
    <3>1. Discards(l, proc.io)
      BY <1>7, <2>2 DEF FilesInv, SoundInv
    <3>2. DiscardStep(l, step)
      BY <1>4, <1>5, <2>2, <3>1, DiscardsTail
    <3>3. LiveLease(l)
      BY <1>1, <1>4, <1>5, <1>7, <2>2, <2>4, StepKinds, LeaseFacts DEF Waiting
    <3>4. l.discard
      BY <1>7, <2>1, <3>3, Now DEF HandOK, DiscardingPcs
    <3>5. l.state = "Discard" /\ ~l.pending
      BY <2>4, <3>2, <3>4 DEF DiscardStep
    <3>6. OnDisk(disk, durable, v, l)
      BY <1>6, <1>7, <2>2 DEF DiskInv, LeaseDisk, InHand
    <3>7. Gone(durable, v)
      BY <3>5, <3>6 DEF OnDisk
    <3> QED
      BY <1>4, <1>8, <2>2, <3>7
  <2> QED
    BY <1>7, <2>1, <2>3, <2>4 DEF DiskInv, DiscardInv
<1>10. GoneInv'
  <2>1. \A s \in discarded : s \in Sessions /\ Gone(durable, s)
    BY Now DEF DiskInv, GoneInv, TypeInv
  <2>2. proc.pc = "persisted" => proc.v \notin discarded
    BY DEF DiskInv, GoneInv
  <2>3. \A s \in discarded : Gone(D, s)
    BY <1>4, <1>8, <2>1, <2>2
  <2> QED
    BY <1>3, <1>4, <2>2, <2>3 DEF GoneInv
<1> QED
  BY <1>9, <1>10

\* An operation of the load.
LEMMA LoadStep ==
  ASSUME SessionInv, OneInv, FilesInv, DiskInv, IoSucceeds
  PROVE  LoadInv'
<1>1. PICK step : step = Head(proc.io)
  OBVIOUS
<1>2. PICK n : n = disk'
  OBVIOUS
<1>4. /\ step = proc.io[1] /\ step \in Step
      /\ proc'.pc = proc.pc /\ proc'.ok = proc.ok /\ proc'.io = Tail(proc.io)
      /\ durable' = IF step.op = "sync" THEN SyncDirectory(step.path) ELSE durable \cup {n}
      /\ step.op = "sync" => n = disk
  BY <1>1, <1>2, NextOperation
<1>5. SUFFICES ASSUME proc.pc = "load"
               PROVE  LoadInv'
  BY <1>4 DEF LoadInv
<1>6. PICK io \in Seq(Step) : io = proc.io
  BY Now DEF CallType
<1>7. io # <<>> /\ LoadSteps(io) /\ (Len(io) = 1 => SyncedDir(Reference))
  BY <1>5, <1>6 DEF IoSucceeds, DiskInv, LoadInv
<1>8. PICK t \in Seq(Step) : t = Tail(io) /\ Len(t) = Len(io) - 1 /\ Len(io) \in Nat /\ Len(io) >= 1
                            /\ (\A i \in 1 .. Len(t) : t[i] = io[i + 1])
  BY <1>6, <1>7, HeadFacts
<1>8a. Len(io) \in {1, 2} /\ (Len(io) = 2 => Len(t) = 1 /\ t[1] = io[2]) /\ (Len(io) = 1 => Len(t) = 0)
  <2>1. Len(io) <= 2
    BY <1>7 DEF LoadSteps
  <2>2. Len(io) = 1 \/ Len(io) = 2
    BY <1>8, <2>1
  <2>3. ASSUME Len(io) = 2
        PROVE  Len(t) = 1 /\ t[1] = io[2]
    <3>1. Len(t) = 1
      BY <1>8, <2>3
    <3>2. 1 \in 1 .. Len(t)
      BY <3>1
    <3>3. t[1] = io[1 + 1]
      BY <1>8, <3>2
    <3> QED
      BY <3>1, <3>3
  <2> QED
    BY <1>8, <2>2, <2>3
<1>9. step.op = "sync" /\ \A f \in disk.files : f.intent = "Active"
  <2>1. Starting /\ 1 \in 1 .. Len(io)
    BY <1>5, <1>8, <1>8a DEF Starting
  <2> QED
    BY <1>4, <1>5, <1>6, <2>1, StartNow
<1>10. durable' = SyncDirectory(step.path) /\ disk' = disk
  BY <1>2, <1>4, <1>9
<1>11. CASE Len(io) = 2
  <2>1. Len(t) = 1 /\ t[1] = io[2]
    BY <1>8a, <1>11
  <2>2. io[1].path = Reference /\ io[2].path.intent \in Intent
    BY <1>7, <1>11 DEF LoadSteps
  <2>3. LoadSteps(t)
    BY <2>1, <2>2 DEF LoadSteps
  <2>4. SyncedDir(Reference)'
    BY <1>4, <1>6, <1>10, <2>2 DEF SyncedDir, SyncDirectory
  <2> QED
    BY <1>4, <1>6, <1>8, <2>1, <2>3, <2>4 DEF LoadInv
<1>12. CASE Len(io) = 1
  <2>1. Len(t) = 0
    BY <1>8a, <1>12
  <2>2. step.path.intent \in Intent
    BY <1>4, <1>6, <1>7, <1>12 DEF LoadSteps
  <2>3. LoadSteps(t)
    BY <2>1 DEF LoadSteps
  <2>4. SyncedDir(Reference)'
    BY <1>7, <1>10, <1>12 DEF SyncedDir, SyncDirectory
  <2>5. \A ns \in durable' : \A f \in ns.files : f.intent = "Active"
    <3>1. \A ns \in durable' : {f \in ns.files : f.intent # "Active"} = {f \in disk.files : f.intent # "Active"}
      BY <1>10, <2>2 DEF SyncDirectory, Directory, Intent
    <3> QED
      BY <1>9, <3>1
  <2> QED
    BY <1>4, <1>6, <1>8, <2>1, <2>3, <2>4, <2>5 DEF LoadInv
<1> QED
  BY <1>8a, <1>11, <1>12

LEMMA IoFailsDisk ==
  ASSUME SessionInv, DiskInv, IoFails
  PROVE  DiskInv'
<1>1. /\ proc'.pc = proc.pc /\ proc'.v = proc.v /\ proc'.lease = proc.lease /\ ~proc'.ok /\ proc'.io = <<>>
      /\ UNCHANGED <<disk, durable, mem, table, discarded>>
  BY Now DEF IoFails, CallType, history_vars
<1>2. /\ Starting' <=> Starting
      /\ \A s : InHand(proc', s) = InHand(proc, s)
  BY <1>1 DEF Starting, InHand
<1>3. LeaseDisk' /\ NoneInv'
  BY <1>1, <1>2 DEF DiskInv, LeaseDisk, NoneInv
<1>4. DiscardInv' /\ GoneInv'
  BY <1>1 DEF DiskInv, DiscardInv, GoneInv
<1>5. LoadSteps(<<>>) /\ Len(<<>>) = 0
  BY DEF LoadSteps
<1>6. LoadInv'
  BY <1>1, <1>5 DEF LoadInv
<1> QED
  BY <1>3, <1>4, <1>6 DEF DiskInv

\* A step that runs no operation: the leases that go on are those of before, or name the
\* reference that is there.
LEMMA StemDisk ==
  ASSUME SessionInv, ~Starting, LeaseDisk, NEW x \in Sessions, NEW l, Stems(x, l)
  PROVE  OnDisk(disk, durable, x, l)
<1>1. CASE ~LiveLease(l)
  BY <1>1, OnDiskNone
<1>2. CASE LiveLease(l)
  <2>1. ASSUME NEW o, SamePlace(o, l), OnDisk(disk, durable, x, o)
        PROVE  OnDisk(disk, durable, x, l)
    BY <2>1 DEF SamePlace, OnDisk
  <2>2. CASE l.state = "Active" /\ Exists(disk, x, Reference)
    BY <2>2 DEF OnDisk
  <2> QED
    BY <1>2, <2>1, <2>2 DEF Stems, LeaseDisk
<1> QED
  BY <1>1, <1>2

LEMMA FlowLeases ==
  ASSUME SessionInv, OneInv, DiskInv, ~Starting, LeaseFlow, Starting' => FALSE
  PROVE  LeaseDisk' /\ NoneInv'
<1>1. PICK x \in Sessions : /\ \A s \in Sessions \ {x} : mem'[s].lease = mem[s].lease /\ table'[s] = table[s]
                            /\ Flows(x, mem'[x], table'[x], proc')
  BY DEF LeaseFlow
<1>2. disk' = disk /\ durable' = durable
  BY DEF LeaseFlow
<1>3. \A s \in Sessions : mem[s].lease \in Lease /\ table[s] \in Lease /\ InHand(proc, s) \in Lease
  BY Now, LeaseFacts DEF InHand
<1>4. ASSUME NEW s \in Sessions, NEW l, l \in {mem[s].lease, table[s], InHand(proc, s)},
             LiveLease(l), l.state \notin Intent
      PROVE  Exists(disk, s, Reference)
  <2>1. l \in Lease /\ OnDisk(disk, durable, s, l)
    BY <1>3, <1>4 DEF DiskInv, LeaseDisk
  <2>2. l.state = "Active"
    BY <1>4, <2>1 DEF Lease, LeaseState, Intent, LiveLease
  <2> QED
    BY <2>1, <2>2 DEF OnDisk
<1>5. HandDisk(disk, durable, x, mem'[x].lease, table'[x], InHand(proc', x))
  <2>1. PICK a : a = mem'[x].lease
    OBVIOUS
  <2>2. PICK b : b = table'[x]
    OBVIOUS
  <2>3. PICK c : c = InHand(proc', x)
    OBVIOUS
  <2>4. /\ Stems(x, a) /\ Stems(x, b) /\ Stems(x, c)
        /\ OneOf(mem[x].lease, a, b, c) /\ OneOf(table[x], a, b, c) /\ OneOf(InHand(proc, x), a, b, c)
    BY <1>1, <2>1, <2>2, <2>3 DEF Flows
  <2>5. OnDisk(disk, durable, x, a) /\ OnDisk(disk, durable, x, b) /\ OnDisk(disk, durable, x, c)
    BY <2>4, StemDisk DEF DiskInv
  <2>6. ASSUME NoneOf(a, b, c), ~Exists(disk, x, Reference)
        PROVE  Gone(durable, x)
    <3>1. a.state \notin Intent /\ b.state \notin Intent /\ c.state \notin Intent
      BY <2>6 DEF NoneOf, LiveLease, Intent
    <3>2. mem[x].lease.state \notin Intent /\ table[x].state \notin Intent /\ InHand(proc, x).state \notin Intent
      BY <2>4, <3>1 DEF OneOf
    <3>3. NoneOf(mem[x].lease, table[x], InHand(proc, x))
      BY <1>4, <2>6, <3>2 DEF NoneOf
    <3> QED
      BY <2>6, <3>3 DEF DiskInv, NoneInv
  <2>7. ASSUME Unmarked(a, b, c)
        PROVE  Unmarked(mem[x].lease, table[x], InHand(proc, x))
    BY <2>4, <2>7 DEF OneOf, Unmarked, Intent
  <2> QED
    BY <2>1, <2>2, <2>3, <2>5, <2>6, <2>7 DEF HandDisk, DiskInv, NoneInv
<1>6. ASSUME NEW s \in Sessions, s # x
      PROVE  HandDisk(disk, durable, s, mem'[s].lease, table'[s], InHand(proc', s))
  <2>1. InHand(proc', s) = NoLease /\ InHand(proc, s).state \notin Intent
    BY <1>1, <1>6, LeaseFacts DEF Flows, InHand, Intent
  <2>2. PICK a : a = mem[s].lease
    OBVIOUS
  <2>3. PICK b : b = table[s]
    OBVIOUS
  <2>4. OnDisk(disk, durable, s, a) /\ OnDisk(disk, durable, s, b) /\ OnDisk(disk, durable, s, NoLease)
    BY <2>2, <2>3, LeaseFacts, OnDiskNone DEF DiskInv, LeaseDisk
  <2>5. ASSUME NoneOf(a, b, NoLease), ~Exists(disk, s, Reference)
        PROVE  Gone(durable, s)
    <3>1. ~LiveLease(InHand(proc, s))
      BY <1>4, <2>1, <2>5
    <3>2. NoneOf(a, b, InHand(proc, s))
      BY <2>5, <3>1 DEF NoneOf
    <3> QED
      BY <2>2, <2>3, <2>5, <3>2 DEF DiskInv, NoneInv
  <2>6. ASSUME Unmarked(a, b, NoLease)
        PROVE  Unmarked(a, b, InHand(proc, s))
    BY <2>1, <2>6 DEF Unmarked, Intent
  <2> QED
    BY <1>1, <1>6, <2>1, <2>2, <2>3, <2>4, <2>5, <2>6 DEF HandDisk, DiskInv, NoneInv
<1>7. \A s \in Sessions : HandDisk(disk, durable, s, mem'[s].lease, table'[s], InHand(proc', s))
  BY <1>5, <1>6
<1> QED
  BY <1>2, <1>7 DEF LeaseDisk, NoneInv, HandDisk

\* A discard is reported complete once no start loads the session.
LEMMA DiscardedGrows ==
  ASSUME SessionInv, DiskInv, StoreControl, NEW s \in discarded'
  PROVE  Gone(durable, s)
<1>1. \A r \in discarded : Gone(durable, r)
  BY DEF DiskInv, GoneInv
<1>2. ASSUME proc.pc \in DiscardingPcs, proc.io = <<>>, proc.ok
      PROVE  Gone(durable, proc.v)
  BY <1>2 DEF DiskInv, DiscardInv, FinalLease
<1>3. CASE TakeRecoveryLease \/ LeaseActive \/ Leasing \/ Unleasing
  BY <1>1, <1>3 DEF TakeRecoveryLease, LeaseActive, Leasing, Unleasing, history_vars
<1>4. CASE Resolved
  BY <1>1, <1>2, <1>4 DEF Resolved, Reached, DiscardingPcs
<1>5. CASE Discarded
  BY <1>1, <1>2, <1>5 DEF Discarded, Reached, DiscardingPcs
<1>6. CASE DiscardSession
  <2>1. CASE s \in discarded
    BY <1>1, <2>1
  <2>2. CASE s \notin discarded
    <3>1. /\ proc.pc = "discard" /\ s = proc.v /\ proc.lease = NoLease /\ table[proc.v] = NoLease
          /\ ~Exists(disk, proc.v, Reference)
      BY <1>6, <2>2 DEF DiscardSession, Reached
    <3>2. ~Starting /\ proc.v \in Sessions /\ mem[proc.v].lease = NoLease
      BY <3>1, DiscardNow
    <3>3. InHand(proc, proc.v) = NoLease
      BY <3>1 DEF InHand
    <3>4. NoneOf(mem[proc.v].lease, table[proc.v], InHand(proc, proc.v))
      BY <3>1, <3>2, <3>3, LeaseFacts DEF NoneOf
    <3> QED
      BY <3>1, <3>2, <3>4 DEF DiskInv, NoneInv
  <2> QED
    BY <2>1, <2>2
<1> QED
  BY <1>3, <1>4, <1>5, <1>6 DEF StoreControl

LEMMA ServerHistory ==
  ASSUME ServerStep
  PROVE  UNCHANGED <<discarded, crashes>>
BY DEF ServerStep, ContinueCold, AttachResidentSession, WakeHibernatedSession, FinishWake, FinishWakeError,
       PersistedMetadata, RestorePersisted, ReferenceRestored, Persisted, Retired, RetainedSession,
       TaskDiscarded, Respond, Fit, FitContinues, HibernateStored, StoreHibernated,
       RestoreFailedHibernation, history_vars

\* A call that is in order keeps what its discard needs.
LEMMA ScriptedDiscard ==
  ASSUME SessionInv', Scripted(proc')
  PROVE  /\ DiscardInv' /\ LoadInv' /\ (Starting' => FALSE)
         /\ proc'.pc # "persisted"
<1>1. proc' \in CallType
  BY DEF SessionInv, TypeInv
<1>2. PICK c \in CallType : c = proc'
  BY <1>1
<1>3. Scripted(c)
  BY <1>2
<1>4. c.pc \notin {"recover", "load", "persisted"}
  BY <1>3 DEF Scripted
<1>5. ASSUME c.pc \in DiscardingPcs
      PROVE  FinalLease(c.lease, c.io).state = "Removed" /\ c.lease.state # "Removed"
  <2>1. PICK l \in Lease : l = c.lease
    BY <1>2 DEF CallType
  <2>2. c.io = Discard(l) /\ l.discard /\ LiveLease(l)
    BY <1>3, <1>5, <2>1 DEF Scripted
  <2>3. l.state \in Intent \cup {"Active"}
    BY <2>1, <2>2 DEF Lease, LeaseState, LiveLease, Intent
  <2> QED
    BY <2>1, <2>2, <2>3, DiscardFinal DEF LiveLease
<1> QED
  BY <1>2, <1>4, <1>5 DEF DiscardInv, LoadInv, Starting

LEMMA ScriptedDisk ==
  ASSUME SessionInv, SessionInv', OneInv, DiskInv, LeaseFlow, ~Starting, Scripted(proc'),
         \A s \in discarded' : Gone(durable, s)
  PROVE  DiskInv'
<1>1. DiscardInv' /\ LoadInv' /\ (Starting' => FALSE) /\ proc'.pc # "persisted"
  BY ScriptedDiscard
<1>2. LeaseDisk' /\ NoneInv'
  BY <1>1, FlowLeases
<1>3. GoneInv'
  BY <1>1 DEF GoneInv, LeaseFlow
<1> QED
  BY <1>1, <1>2, <1>3 DEF DiskInv

LEMMA PersistChatSessionDisk ==
  ASSUME SessionInv, OneInv, DiskInv, LeaseFlow, NEW s \in Sessions, PersistChatSession(s)
  PROVE  DiskInv'
<1>1. /\ proc.pc = "idle" /\ proc'.pc = "persisted" /\ proc'.v = s /\ discarded' = discarded \ {s}
  BY DEF PersistChatSession, Begin, Enter
<1>2. ~Starting /\ (Starting' => FALSE)
  BY <1>1 DEF Starting
<1>3. LeaseDisk' /\ NoneInv'
  BY <1>2, FlowLeases
<1>4. GoneInv' /\ DiscardInv' /\ LoadInv'
  BY <1>1 DEF GoneInv, DiscardInv, LoadInv, LeaseFlow, DiskInv, DiscardingPcs
<1> QED
  BY <1>3, <1>4 DEF DiskInv

\* A start keeps what is durable.
LEMMA StartingDisk ==
  ASSUME Starting', LoadInv', \A s \in discarded' : Gone(durable', s)
  PROVE  DiskInv'
<1>1. proc'.pc \in {"recover", "load"}
  BY DEF Starting
<1>2. GoneInv' /\ DiscardInv'
  BY <1>1 DEF GoneInv, DiscardInv, DiscardingPcs
<1>3. LeaseDisk' /\ NoneInv'
  BY DEF LeaseDisk, NoneInv
<1> QED
  BY <1>2, <1>3 DEF DiskInv

LEMMA NewProcessDisk ==
  ASSUME SessionInv, DiskInv, Crash \/ Panic
  PROVE  DiskInv'
<1>1. durable' \subseteq durable /\ discarded' = discarded /\ proc' = [Idle EXCEPT !.pc = "recover"]
  BY DEF Crash, Panic, Start
<1>2. proc'.pc = "recover"
  BY <1>1, IdleFacts DEF CallType
<1>3. \A s \in discarded' : Gone(durable', s)
  BY <1>1 DEF DiskInv, GoneInv, Gone
<1>4. Starting' /\ LoadInv'
  BY <1>2 DEF Starting, LoadInv
<1> QED
  BY <1>3, <1>4, StartingDisk

LEMMA RecoverQuarantineDisk ==
  ASSUME SessionInv, DiskInv, RecoverQuarantine
  PROVE  DiskInv'
<1>1. durable' = durable /\ discarded' = discarded /\ proc.pc = "recover" /\ proc \in CallType
  BY Now DEF RecoverQuarantine, Reached, disk_vars, history_vars
<1>2. \A s \in discarded' : Gone(durable', s)
  BY <1>1 DEF DiskInv, GoneInv
<1>3. CASE proc'.pc = "recover"
  BY <1>2, <1>3, StartingDisk DEF Starting, LoadInv
<1>4. CASE proc'.pc # "recover"
  <2>1. proc' = Call("load", NoLease, <<Sync(Reference, NoLease), Sync(Quarantine(0, "Restore"), NoLease)>>)
    <3>1. \A f : proc' # [proc EXCEPT !.v = f.session, !.io = RecoverReference(f), !.ok = TRUE]
      BY <1>1, <1>4 DEF CallType
    <3> QED
      BY <3>1 DEF RecoverQuarantine
  <2>2. PICK io : io = <<Sync(Reference, NoLease), Sync(Quarantine(0, "Restore"), NoLease)>>
    OBVIOUS
  <2>3. proc'.pc = "load" /\ proc'.io = io
    BY <1>1, <2>1, <2>2 DEF Call, CallType
  <2>4. Len(io) = 2 /\ io[1] = Sync(Reference, NoLease) /\ io[2] = Sync(Quarantine(0, "Restore"), NoLease)
    BY <2>2
  <2>5. io[1].path = Reference /\ io[2].path.intent \in Intent
    BY <2>4 DEF Sync, Do, Quarantine, Intent
  <2>6. LoadSteps(io) /\ Len(io) # 0 /\ Len(io) # 1
    BY <2>4, <2>5 DEF LoadSteps
  <2>7. LoadInv'
    BY <2>3, <2>6 DEF LoadInv
  <2> QED
    BY <1>2, <2>3, <2>7, StartingDisk DEF Starting
<1> QED
  BY <1>3, <1>4

LEMMA LoadSessionArchivesDisk ==
  ASSUME SessionInv, DiskInv, LoadSessionArchives
  PROVE  DiskInv'
<1>1. /\ disk' = disk /\ durable' = durable /\ discarded' = discarded /\ mem' = mem /\ table' = table
      /\ proc.pc = "load" /\ proc.io = <<>> /\ proc \in CallType
  BY Now DEF LoadSessionArchives, Reached, disk_vars, history_vars
<1>2. \A s \in discarded' : Gone(durable', s)
  BY <1>1 DEF DiskInv, GoneInv
<1>3. CASE ~proc.ok
  <2>1. proc'.pc = "recover"
    BY <1>1, <1>3 DEF LoadSessionArchives, Call, CallType
  <2> QED
    BY <1>2, <2>1, StartingDisk DEF Starting, LoadInv
<1>4. CASE proc.ok
  <2>1. proc' = Idle
    BY <1>4 DEF LoadSessionArchives
  <2>2. proc'.pc = "idle" /\ proc'.lease = NoLease
    BY <2>1, IdleFacts
  <2>3. \A s \in Sessions : mem[s].lease = NoLease /\ table[s] = NoLease
    BY <1>1, StartNow, AbsentFacts DEF Starting
  <2>4. \A s \in Sessions : InHand(proc', s) = NoLease
    BY <2>2 DEF InHand
  <2>5. LeaseDisk'
    BY <1>1, <2>3, <2>4, LeaseFacts, OnDiskNone DEF LeaseDisk
  <2>6. \A ns \in durable : Directory(ns, Reference) = Directory(disk, Reference)
    BY <1>1, <1>4, EmptyFacts DEF DiskInv, LoadInv, SyncedDir
  <2>7. \A ns \in durable : \A f \in ns.files : f.intent = "Active"
    BY <1>1, <1>4, EmptyFacts DEF DiskInv, LoadInv
  <2>8. ASSUME NEW s \in Sessions, ~Exists(disk, s, Reference)
        PROVE  Gone(durable, s)
    <3>1. ASSUME NEW ns \in durable
          PROVE  Recovered(ns, s) = 0
      <4>1. ~Marked(ns, s) /\ Restorable(ns, s) = {}
        BY <2>7 DEF Marked, Restorable
      <4>2. {f \in ns.files : f.intent = "Active"} = {f \in disk.files : f.intent = "Active"}
        BY <2>6 DEF Directory, Reference
      <4>3. ~Exists(ns, s, Reference)
        BY <2>8, <4>2 DEF Exists, At, Reference
      <4> QED
        BY <4>1, <4>3 DEF Recovered
    <3> QED
      BY <3>1 DEF Gone
  <2>9. \A s \in Sessions : \A ns \in durable : ~Marked(ns, s)
    BY <2>7 DEF Marked
  <2>10. NoneInv'
    BY <1>1, <2>8, <2>9 DEF NoneInv
  <2>11. GoneInv' /\ DiscardInv' /\ LoadInv'
    BY <1>2, <2>2 DEF GoneInv, DiscardInv, LoadInv, DiscardingPcs
  <2> QED
    BY <2>5, <2>10, <2>11 DEF DiskInv
<1> QED
  BY <1>1, <1>3, <1>4 DEF CallType

LEMMA NextDiskInv ==
  ASSUME ForkParents = {}
  PROVE  SessionInv /\ SessionInv' /\ OneInv /\ FilesInv /\ TableInv /\ DiskInv /\ [Next]_vars => DiskInv'
<1> SUFFICES ASSUME SessionInv, SessionInv', OneInv, FilesInv, TableInv, DiskInv, [Next]_vars
             PROVE  DiskInv'
  OBVIOUS
<1>1. CASE IoSucceeds \/ IoFails
  BY <1>1, LeasesStep, DiscardStepGone, LoadStep, IoFailsDisk DEF DiskInv
<1>2. CASE Crash \/ Panic \/ RecoverQuarantine \/ LoadSessionArchives
  BY <1>2, NewProcessDisk, RecoverQuarantineDisk, LoadSessionArchivesDisk
<1>3. CASE ServerStep
  <2>1. Persisted /\ proc.ok => Exists(disk, proc.v, Reference)
    <3> SUFFICES ASSUME Persisted, proc.ok
                 PROVE  Exists(disk, proc.v, Reference)
      OBVIOUS
    <3>1. proc.pc = "persisted" /\ proc.io = <<>> /\ Len(<<>>) = 0
      BY EmptyFacts DEF Persisted, Reached
    <3>2. clock # 0 /\ LastUsed(disk, proc.v, Reference) = clock
      BY <3>1 DEF FilesInv, PersistInv, PersistOK
    <3> QED
      BY <3>2 DEF LastUsed
  <2>2. ~Starting /\ LeaseFlow /\ Scripted(proc') /\ discarded' = discarded
    BY <1>3, <2>1, ControlTicks, ServerStepFlows, ServerStepScripted, ServerHistory
  <2> QED
    BY <2>2, ScriptedDisk DEF DiskInv, GoneInv
<1>4. CASE StoreControl
  <2>1. ~Starting /\ LeaseFlow /\ Scripted(proc') /\ \A s \in discarded' : Gone(durable, s)
    BY <1>4, ControlTicks, StoreControlFlows, StoreControlScripted, DiscardedGrows
  <2> QED
    BY <2>1, ScriptedDisk
<1>5. CASE Request
  <2>1. PICK s \in Sessions : \/ LeaseContinueSession(s) \/ LeaseForkSession(s)
                              \/ PersistChatSession(s) \/ RetainFailedSession(s)
                              \/ \E why \in {"cancelled", "ended"} : DiscardStoredSession(s, why)
    BY <1>5 DEF Request
  <2>2. ~LeaseForkSession(s) /\ LeaseFlow /\ ~Starting
    BY <1>5, ControlTicks, RequestFlows DEF LeaseForkSession
  <2>3. CASE PersistChatSession(s)
    BY <2>2, <2>3, PersistChatSessionDisk
  <2>4. CASE LeaseContinueSession(s) \/ RetainFailedSession(s)
             \/ \E why \in {"cancelled", "ended"} : DiscardStoredSession(s, why)
    <3>1. Scripted(proc')
      BY <2>4, RequestScripted
    <3>2. discarded' = discarded
      BY <2>4 DEF LeaseContinueSession, RetainFailedSession, DiscardStoredSession, history_vars
    <3> QED
      BY <2>2, <3>1, <3>2, ScriptedDisk DEF DiskInv, GoneInv
  <2> QED
    BY <2>1, <2>2, <2>3, <2>4
<1>6. CASE UNCHANGED vars
  BY <1>6 DEF vars, DiskInv, LeaseDisk, NoneInv, DiscardInv, GoneInv, LoadInv, SyncedDir, Starting
<1> QED
  BY <1>1, <1>2, <1>3, <1>4, <1>5, <1>6 DEF Next, StoreStep, StoreControl

LEMMA InitDiskInv == Init => DiskInv
<1> SUFFICES ASSUME Init
             PROVE  DiskInv
  OBVIOUS
<1>1. disk.files = {} /\ durable = {disk} /\ discarded = {}
  BY DEF Init
<1>2. proc.pc = "idle" /\ proc.lease = NoLease
  BY IdleFacts DEF Init
<1>3. \A s \in Sessions : mem[s].lease = NoLease /\ table[s] = NoLease /\ InHand(proc, s) = NoLease
  BY <1>2, AbsentFacts DEF Init, InHand
<1>4. LeaseDisk
  BY <1>3, LeaseFacts, OnDiskNone DEF LeaseDisk
<1>5. \A s : Recovered(disk, s) = 0 /\ ~Marked(disk, s)
  BY <1>1 DEF Recovered, Marked, Exists, At, Restorable
<1>6. NoneInv
  BY <1>1, <1>5 DEF NoneInv, Gone
<1>7. DiscardInv /\ GoneInv /\ LoadInv
  BY <1>1, <1>2 DEF DiscardInv, GoneInv, LoadInv, DiscardingPcs
<1> QED
  BY <1>4, <1>6, <1>7 DEF DiskInv

LEMMA DiskInvAlways ==
  ASSUME ForkParents = {}
  PROVE  Spec => [](SessionInv /\ OneInv /\ FilesInv /\ TableInv /\ DiskInv)
<1>1. Init => DiskInv
  BY InitDiskInv
<1>2. SessionInv /\ SessionInv' /\ OneInv /\ FilesInv /\ TableInv /\ DiskInv /\ [Next]_vars => DiskInv'
  BY NextDiskInv
<1> QED
  BY <1>1, <1>2, FilesInvAlways, TableInvAlways, PTL DEF Spec

\* While no running session is forked, a session whose discard was reported complete is not
\* loaded again, whatever file operation fails and whenever the machine stops: discard and
\* resolve_recovery_lease report success only after a marker of the discard was durable and
\* the reference removed, and discard_session_with_reference without a lease only for a
\* session that has no reference anywhere.
THEOREM DiscardedNeverReturns ==
  ASSUME ForkParents = {}
  PROVE  Spec => []DiscardedStaysGone
<1>1. DiskInv => DiscardedStaysGone
  BY DEF DiskInv, GoneInv, Gone, DiscardedStaysGone
<1> QED
  BY <1>1, DiskInvAlways, PTL

-----------------------------------------------------------------------------
(* What a client was told *)

\* No session whose response was delivered is being discarded, and none is lost.
DiscardKept == \A s \in Sessions : AnyDiscard(mem[s].lease, table[s], InHand(proc, s)) => kept[s] = 0

KeptFiles == \A s \in Sessions : kept[s] # 0 => \A ns \in durable : Recovered(ns, s) >= kept[s]

\* A request whose persist has succeeded, and that has not failed since.
Settled(c) ==
  /\ c.top = "finish" /\ c.pc \notin StartPcs \cup {"persisted", "lost", "panic"}
  /\ c.pc = "discarded" => c.then # "lost"
  /\ c.pc = "respond" => c.ok

SettledInv ==
  /\ Settled(proc) => /\ \A ns \in durable : Recovered(ns, proc.s) >= clock
                      /\ ~AnyDiscard(mem[proc.s].lease, table[proc.s], InHand(proc, proc.s))
                      /\ proc.pc \in DiscardPcs => proc.v # proc.s
  /\ proc.pc = "retained" => proc.top # "finish"
  /\ proc.pc = "respond" => proc.top = "finish"

KeptInv == DiscardKept /\ KeptFiles /\ SettledInv

\* An operation asks for no discard.
LEMMA StepDiscards ==
  ASSUME SessionInv, IoSucceeds, NEW step, step = Head(proc.io), DiscardPending(step.lease)
  PROVE  DiscardPending(proc.lease)
<1>1. CASE Starting
  <2>1. proc.io \in Seq(Step) /\ proc.io # <<>> /\ step = proc.io[1] /\ 1 \in 1 .. Len(proc.io)
    BY Now, HeadFacts DEF IoSucceeds, CallType
  <2>2. step.lease = NoLease
    BY <1>1, <2>1, StartNow DEF StartScript, Leaseless
  <2> QED
    BY <2>2, LeaseFacts
<1>2. CASE ~Starting
  <2>1. LeaseTurns(proc.lease, step.lease, proc.pc)
    BY <1>2, ScriptTurns
  <2> QED
    BY <2>1, LeaseFacts DEF LeaseTurns, SameLease, DiscardPending, LiveLease
<1> QED
  BY <1>1, <1>2

\* The session of a persist has no lease to discard, and no marker.
LEMMA PersistUnmarked ==
  ASSUME SessionInv, TableInv, DiskInv, proc.pc = "persisted"
  PROVE  /\ ~AnyDiscard(mem[proc.v].lease, table[proc.v], InHand(proc, proc.v))
         /\ \A ns \in durable : ~Marked(ns, proc.v)
<1>1. PICK v \in Sessions : v = proc.v
  BY Now
<1>2. ~Starting /\ InHand(proc, v) = NoLease
  BY <1>1, QuietFacts DEF Starting, InHand
<1>3. mem[v].at = "task" /\ SessionOK(mem[v])
  BY <1>1, Now DEF WhereOK
<1>4. ~DiscardPending(mem[v].lease) /\ ~DiscardPending(table[v])
  BY <1>3 DEF SessionOK, TableInv, TableOK
<1>5. Unmarked(mem[v].lease, table[v], NoLease)
  BY <1>4, LeaseFacts DEF DiscardPending, Unmarked
<1> QED
  BY <1>1, <1>2, <1>4, <1>5, LeaseFacts DEF AnyDiscard, DiskInv, NoneInv

\* An operation loses no session, unless its lease is for a discard.
LEMMA StepKeeps ==
  ASSUME SessionInv, OneInv, FilesInv, TableInv, DiskInv, IoSucceeds, NEW s \in Sessions, NEW b \in Nat,
         ~DiscardPending(InHand(proc, s)), \A ns \in durable : Recovered(ns, s) >= b
  PROVE  \A ns \in durable' : Recovered(ns, s) >= b
<1>1. PICK step : step = Head(proc.io)
  OBVIOUS
<1>2. PICK n : n = disk'
  OBVIOUS
<1>3. /\ CanDo(step) /\ step.op \in {"move", "remove", "sync", "link", "publish"} /\ Operates(n, step)
      /\ step = proc.io[1] /\ step \in Step /\ OperationOK(disk, proc.v, step)
      /\ step.op \in {"link", "publish"} => proc.pc = "persisted"
      /\ durable' = IF step.op = "sync" THEN SyncDirectory(step.path) ELSE durable \cup {n}
  BY <1>1, <1>2, NextOperation
<1>4. durable' \subseteq durable \cup {n} /\ proc.io # <<>>
  BY <1>3 DEF SyncDirectory, IoSucceeds
<1>5. disk \in durable /\ disk \in Namespace /\ Recovered(disk, s) >= b
  BY Now, DiskFacts DEF TypeInv
<1>6. Recovered(n, s) >= b
  <2>1. CASE s # proc.v
    <3>1. Of(n, s) = Of(disk, s)
      BY <1>3, <2>1 DEF Operates
    <3> QED
      BY <1>5, <3>1, SameRecovered
  <2>2. CASE s = proc.v /\ Keeping(step)
    BY <1>3, <1>5, <2>2 DEF Operates
  <2>3. CASE s = proc.v /\ step.op = "move" /\ step.to.intent = "Discard"
    <3>1. PICK l \in Lease : l = proc.lease
      BY Now
    <3>2. ~Starting
      <4> SUFFICES ASSUME Starting
                   PROVE  FALSE
        OBVIOUS
      <4>1. proc.io \in Seq(Step) /\ 1 \in 1 .. Len(proc.io)
        BY <1>4, Now, HeadFacts DEF CallType
      <4>2. step.to = Reference
        BY <1>3, <2>3, <4>1, StartNow DEF StartScript, MovesToRefs
      <4> QED
        BY <2>3, <4>2 DEF Reference
    <3>3. Sames(l, step) \/ MovesLease(l, step) \/ Ends(l, step, proc.io)
      BY <1>1, <1>3, <1>4, <3>1, <3>2, StepKinds
    <3>4. MovesLease(l, step)
      BY <2>3, <3>3 DEF Sames, Ends
    <3>5. PICK k \in Lease : k = step.lease
      BY <1>3 DEF Step
    <3>6. step.to = PlaceOf(k) /\ k.state \in {"Restore", "Active", "Superseded", "Discard"} /\ (k.state = "Discard" => l.discard)
      BY <3>4, <3>5 DEF MovesLease
    <3>7. LiveLease(k)
      BY <3>6 DEF LiveLease
    <3>8. k.state = "Discard"
      BY <2>3, <3>5, <3>6, <3>7, PlaceIntent
    <3>9. InHand(proc, s) = l
      BY <2>3, <3>1 DEF InHand
    <3> QED
      BY <3>6, <3>8, <3>9 DEF DiscardPending
  <2>4. CASE s = proc.v /\ step.op = "publish"
    <3>1. ~Marked(disk, s)
      BY <1>3, <1>5, <2>4, PersistUnmarked
    <3>2. Recovered(n, s) = step.last_used
      BY <1>3, <2>4, <3>1 DEF Operates
    <3>3. \A f \in Of(disk, s) : f.last_used <= step.last_used /\ f.last_used \in 0 .. MaxClock
      BY <1>3, <1>5, <2>4 DEF OperationOK, Of, Namespace, StoredFile
    <3>4. step.last_used \in 0 .. MaxClock /\ MaxClock \in Nat
      BY <1>3, StoreAssumption DEF Step
    <3>5. FilesOK(disk, s)
      BY <1>5 DEF FilesInv, FileInv
    <3>6. CASE Of(disk, s) = {}
      <4>1. Recovered(disk, s) = 0
        BY <1>5, <3>5, <3>6, RecoveredFacts
      <4> QED
        BY <1>5, <3>2, <3>4, <4>1
    <3>7. CASE Of(disk, s) # {}
      <4>1. PICK f : Latest(disk, s, f)
        BY <1>5, <3>1, <3>5, <3>7, RecoveredFacts
      <4>2. Recovered(disk, s) = f.last_used /\ f \in Of(disk, s)
        BY <1>5, <3>1, <3>5, <4>1, RecoveredFacts DEF Latest
      <4>3. f.last_used <= step.last_used /\ f.last_used \in 0 .. MaxClock /\ f.last_used >= b
        BY <1>5, <3>3, <4>2
      <4>4. step.last_used >= b
        BY <3>4, <4>3
      <4> QED
        BY <3>2, <4>4
    <3> QED
      BY <3>6, <3>7
  <2> QED
    BY <1>3, <2>1, <2>2, <2>3, <2>4 DEF Keeping
<1> QED
  BY <1>4, <1>6

LEMMA IoSucceedsKept ==
  ASSUME SessionInv, OneInv, FilesInv, TableInv, DiskInv, KeptInv, IoSucceeds
  PROVE  KeptInv'
<1>1. PICK step : step = Head(proc.io)
  OBVIOUS
<1>2. /\ proc'.pc = proc.pc /\ proc'.top = proc.top /\ proc'.then = proc.then /\ proc'.s = proc.s
      /\ proc'.v = proc.v /\ proc'.ok = proc.ok /\ proc'.lease = step.lease
      /\ mem' = mem /\ table' = table /\ clock' = clock /\ kept' = kept
      /\ step.op \in {"link", "publish"} => proc.pc = "persisted"
  BY <1>1, NextOperation
<1>3. ASSUME NEW s \in Sessions, AnyDiscard(mem[s].lease, table[s], InHand(proc', s))
      PROVE  AnyDiscard(mem[s].lease, table[s], InHand(proc, s))
  <2>1. DiscardPending(InHand(proc', s)) => DiscardPending(InHand(proc, s))
    <3>1. CASE s = proc.v
      BY <1>1, <1>2, <3>1, StepDiscards DEF InHand
    <3>2. CASE s # proc.v
      BY <1>2, <3>2 DEF InHand
    <3> QED
      BY <3>1, <3>2
  <2> QED
    BY <1>3, <2>1 DEF AnyDiscard
<1>4. DiscardKept'
  BY <1>2, <1>3 DEF DiscardKept, KeptInv
<1>5. KeptFiles'
  <2> SUFFICES ASSUME NEW s \in Sessions, kept[s] # 0
               PROVE  \A ns \in durable' : Recovered(ns, s) >= kept[s]
    BY <1>2 DEF KeptFiles
  <2>1. PICK b \in Nat : b = kept[s]
    BY Now DEF TypeInv
  <2>2. ~DiscardPending(InHand(proc, s)) /\ \A ns \in durable : Recovered(ns, s) >= b
    BY <2>1 DEF KeptInv, DiscardKept, KeptFiles, AnyDiscard
  <2> QED
    BY <2>1, <2>2, StepKeeps
<1>6. SettledInv'
  <2>1. Settled(proc') <=> Settled(proc)
    BY <1>2 DEF Settled
  <2>2. ASSUME Settled(proc)
        PROVE  /\ \A ns \in durable' : Recovered(ns, proc.s) >= clock
               /\ ~AnyDiscard(mem[proc.s].lease, table[proc.s], InHand(proc', proc.s))
               /\ proc.pc \in DiscardPcs => proc.v # proc.s
    <3>1. PICK s \in Sessions : s = proc.s
      BY Now
    <3>2. PICK b \in Nat : b = clock
      BY Now, StoreAssumption DEF TypeInv
    <3>3. /\ \A ns \in durable : Recovered(ns, s) >= b
          /\ ~AnyDiscard(mem[s].lease, table[s], InHand(proc, s))
          /\ proc.pc \in DiscardPcs => proc.v # proc.s
      BY <2>2, <3>1, <3>2 DEF KeptInv, SettledInv
    <3>4. ~DiscardPending(InHand(proc, s))
      BY <3>3 DEF AnyDiscard
    <3>5. \A ns \in durable' : Recovered(ns, s) >= b
      BY <3>3, <3>4, StepKeeps
    <3> QED
      BY <1>3, <3>1, <3>2, <3>3, <3>5
  <2> QED
    BY <1>2, <2>1, <2>2 DEF SettledInv, KeptInv
<1> QED
  BY <1>4, <1>5, <1>6 DEF KeptInv

LEMMA IoFailsKept ==
  ASSUME SessionInv, KeptInv, IoFails
  PROVE  KeptInv'
<1>1. /\ proc'.pc = proc.pc /\ proc'.v = proc.v /\ proc'.lease = proc.lease /\ proc'.s = proc.s
      /\ proc'.top = proc.top /\ proc'.then = proc.then
      /\ UNCHANGED <<disk, durable, mem, table, kept, clock>>
  BY Now DEF IoFails, CallType, history_vars
<1>2. proc.pc # "respond"
  BY Now DEF IoFails, CallOK
<1>3. \A s : InHand(proc', s) = InHand(proc, s)
  BY <1>1 DEF InHand
<1>4. Settled(proc') <=> Settled(proc)
  BY <1>1, <1>2 DEF Settled
<1>5. DiscardKept' /\ KeptFiles'
  BY <1>1, <1>3 DEF DiscardKept, KeptFiles, KeptInv
<1>6. SettledInv'
  BY <1>1, <1>3, <1>4 DEF SettledInv, KeptInv
<1> QED
  BY <1>5, <1>6 DEF KeptInv

\* A request that has persisted its session goes on: how a step continues it.
Goes(c) ==
  /\ Settled(c) =>
       \/ Persisted /\ proc.ok
       \/ /\ Settled(proc) /\ c.s = proc.s /\ clock' = clock
          /\ c.pc = "discard" => DiscardPending(mem[c.v].lease)
          /\ c.pc = "discarded" => proc.pc = "discard" /\ c.v = proc.v
  /\ c.pc = "retained" => c.top # "finish"
  /\ c.pc = "respond" => c.top = "finish"

\* A step that is not part of a request.
LEMMA OtherGoes ==
  ASSUME NEW c, c.top # "finish", c.pc # "respond"
  PROVE  Goes(c)
BY DEF Goes, Settled

LEMMA CallFields ==
  ASSUME SessionInv, NEW c,
         \/ \E pc, l, io : c = Call(pc, l, io)
         \/ \E ok, l : c = Return(ok, l)
  PROVE  c.top = proc.top /\ c.s = proc.s /\ c.v = proc.v /\ c.then = proc.then
BY Now DEF Call, Return, CallType

LEMMA CallPc ==
  ASSUME SessionInv, NEW c, NEW pc, NEW l, NEW io, c = Call(pc, l, io)
  PROVE  c.pc = pc
BY Now DEF Call, CallType

LEMMA ReturnPc ==
  ASSUME SessionInv, NEW c, NEW ok, NEW l, c = Return(ok, l)
  PROVE  c.pc = proc.then
BY Now DEF Return, CallType

\* lease_reference
LEMMA LeaseGoes ==
  ASSUME SessionInv, proc.pc \in LeasePcs, clock' = clock, NEW c,
         \/ \E pc \in LeasePcs : \E l, io : c = Call(pc, l, io)
         \/ \E ok, l : c = Return(ok, l)
         \/ c = CheckActive
  PROVE  Goes(c)
<1>1. \/ \E pc \in LeasePcs : \E l, io : c = Call(pc, l, io)
      \/ \E ok, l : c = Return(ok, l)
  BY DEF CheckActive
<1>2. c.top = proc.top /\ c.s = proc.s
  BY <1>1, CallFields
<1>3. c.pc \in LeasePcs \cup LeaseThens
  <2>1. proc.then \in LeaseThens
    BY LeaseNow
  <2> QED
    BY <1>1, <2>1, CallPc, ReturnPc
<1>4. /\ proc.pc \notin StartPcs \cup {"persisted", "lost", "panic", "discarded", "respond"}
      /\ c.pc \notin {"discard", "discarded", "retained", "respond"}
  BY <1>3
<1> QED
  BY <1>2, <1>4 DEF Goes, Settled

LEMMA TakeRecoveryLeaseGoes ==
  ASSUME SessionInv, TakeRecoveryLease
  PROVE  Goes(proc')
<1>1. PICK c : c = proc'
  OBVIOUS
<1>2. proc.v \in Sessions
  BY Now
<1>3. PICK l \in Lease : l = table[proc.v] /\ Waiting(l)
  BY <1>2, Now DEF RetainedOK
<1>4. c = ResolveRecoveryLease(proc.v, l) /\ proc.pc \in LeasePcs /\ clock' = clock
  BY <1>1, <1>3 DEF TakeRecoveryLease, Reached
<1>5. CASE l = NoLease
  <2>1. c = CheckActive
    BY <1>4, <1>5, LeaseFacts DEF ResolveRecoveryLease, ActiveConflicts, ActiveSupersedes
  <2> QED
    BY <1>1, <1>4, <2>1, LeaseGoes
<1>6. CASE LiveLease(l) /\ DiscardPending(l)
  <2>1. PICK m : m = [l EXCEPT !.discard = TRUE]
    OBVIOUS
  <2>2. c = Call("resolvedDiscard", m, Discard(m))
    BY <1>4, <1>6, <2>1 DEF ResolveRecoveryLease, LiveLease
  <2>3. \E pc \in LeasePcs : \E k, io : c = Call(pc, k, io)
    BY <2>2
  <2> QED
    BY <1>1, <1>4, <2>3, LeaseGoes
<1>7. CASE LiveLease(l) /\ ~DiscardPending(l)
  <2>1. l.state \in {"Restore", "Superseded", "Active"}
    BY <1>7 DEF LiveLease, DiscardPending, Lease, LeaseState
  <2>2. \/ c = Call("resolved", l, Refuse) \/ c = Call("resolved", l, SyncPendingNamespaces(l))
        \/ c = Call("resolved", l, Requarantine(l))
        \/ c = Call("resolvedRetire", l, Retire(l))
    BY <1>4, <1>7, <2>1 DEF ResolveRecoveryLease, ActiveConflicts, ActiveSupersedes
  <2>3. \E pc \in LeasePcs : \E k, io : c = Call(pc, k, io)
    BY <2>2
  <2> QED
    BY <1>1, <1>4, <2>3, LeaseGoes
<1> QED
  BY <1>3, <1>5, <1>6, <1>7 DEF Waiting

LEMMA LeasingGoes ==
  ASSUME SessionInv, Resolved \/ LeaseActive \/ Leasing \/ Unleasing
  PROVE  Goes(proc')
<1>1. PICK c : c = proc'
  OBVIOUS
<1>2. proc.pc \in LeasePcs /\ clock' = clock
  BY DEF Resolved, LeaseActive, Leasing, Unleasing, Reached
<1>3. \/ \E pc \in LeasePcs : \E l, io : c = Call(pc, l, io)
      \/ \E ok, l : c = Return(ok, l)
      \/ c = CheckActive
  BY <1>1 DEF Resolved, LeaseActive, Leasing, Unleasing
<1> QED
  BY <1>1, <1>2, <1>3, LeaseGoes

\* discard_session_with_reference
LEMMA DiscardGoes ==
  ASSUME SessionInv, DiscardSession \/ Discarded
  PROVE  Goes(proc')
<1>1. PICK c : c = proc'
  OBVIOUS
<1>2. proc.pc \in DiscardPcs /\ clock' = clock
  BY DEF DiscardSession, Discarded, Reached
<1>3. proc.pc = "discard" => proc.then \in DiscardThens
  BY <1>2, DiscardNow
<1>4. proc.then \in DiscardThens \cup {"lost"}
  BY <1>2, DiscardNow
<1>5. CASE \E ok, l : c = Return(ok, l)
  <2>1. c.top = proc.top /\ c.s = proc.s /\ c.pc = proc.then
    BY <1>5, CallFields, ReturnPc
  <2>2. c.pc \notin {"discard", "discarded", "retained", "respond"}
    BY <1>4, <2>1
  <2>3. Settled(c) => Settled(proc)
    BY <1>2, <1>3, <2>1 DEF Settled
  <2> QED
    BY <1>1, <1>2, <2>1, <2>2, <2>3 DEF Goes
<1>6. CASE DiscardSession /\ \E l : c = DiscardLeased(l)
  <2>1. \E l, io : c = Call("discarded", l, io)
    BY <1>6 DEF DiscardLeased
  <2>2. c.top = proc.top /\ c.s = proc.s /\ c.v = proc.v
    BY <2>1, CallFields
  <2>3. c.pc = "discarded" /\ proc.pc = "discard"
    BY <1>6, <2>1, CallPc DEF DiscardSession, Reached
  <2>4. Settled(c) => Settled(proc)
    BY <2>2, <2>3 DEF Settled
  <2> QED
    BY <1>1, <1>2, <2>2, <2>3, <2>4 DEF Goes
<1>7. CASE c = [proc EXCEPT !.pc = "panic"]
  <2>1. c.pc = "panic"
    BY <1>7, Now DEF CallType
  <2> QED
    BY <1>1, <2>1 DEF Goes, Settled
<1>8. CASE DiscardSession
  <2>1. (\E l : c = DiscardLeased(l)) \/ (\E ok, l : c = Return(ok, l))
    BY <1>1, <1>8 DEF DiscardSession
  <2> QED
    BY <1>5, <1>6, <1>8, <2>1
<1>9. CASE Discarded
  <2>1. c = [proc EXCEPT !.pc = "panic"] \/ (\E ok, l : c = Return(ok, l))
    BY <1>1, <1>9 DEF Discarded
  <2> QED
    BY <1>5, <1>7, <2>1
<1> QED
  BY <1>8, <1>9

LEMMA StoreControlGoes ==
  ASSUME SessionInv, StoreControl
  PROVE  Goes(proc')
BY TakeRecoveryLeaseGoes, LeasingGoes, DiscardGoes DEF StoreControl

LEMMA IdleGoes ==
  ASSUME NEW c, c = Idle \/ (\E pc, top, then, s, l : top # "finish" /\ pc # "respond" /\ c = Begin(pc, top, then, s, l))
  PROVE  Goes(c)
<1>1. c.top # "finish" /\ c.pc # "respond"
  BY IdleFacts DEF Begin, Enter
<1> QED
  BY <1>1, OtherGoes

\* The places from which an insertion goes on.
LEMMA ProceedGoes ==
  ASSUME proc.pc \notin StartPcs \cup {"persisted", "lost", "panic", "discarded", "respond"}, clock' = clock,
         NEW pc \in {"fit", "hibernating", "lease", "discard"}, NEW then, NEW v, NEW l,
         pc = "discard" => DiscardPending(mem[v].lease),
         NEW c, c = Proceed(pc, then, v, l)
  PROVE  Goes(c)
<1>1. c.pc = pc /\ c.top = proc.top /\ c.s = proc.s /\ c.v = v
  BY DEF Proceed, Enter
<1> QED
  BY <1>1 DEF Goes, Settled

LEMMA InsertEndsGoes ==
  ASSUME NEW ok \in BOOLEAN, InsertEnds(ok),
         ok => clock' = clock
               /\ proc.pc \notin StartPcs \cup {"persisted", "lost", "panic", "discarded", "respond"}
  PROVE  Goes(proc')
<1>1. PICK c : c = proc'
  OBVIOUS
<1>2. CASE proc.top = "finish"
  <2>1. c = [Begin("respond", "finish", "none", proc.s, NoLease) EXCEPT !.ok = ok]
    BY <1>1, <1>2 DEF InsertEnds
  <2>2. c.pc = "respond" /\ c.s = proc.s /\ c.ok = ok /\ c.top = "finish"
    BY <2>1 DEF Begin, Enter
  <2> QED
    BY <1>1, <1>2, <2>2 DEF Goes, Settled
<1>3. CASE proc.top # "finish"
  <2>1. c = Idle
    BY <1>1, <1>3 DEF InsertEnds
  <2> QED
    BY <1>1, <2>1, IdleGoes
<1> QED
  BY <1>2, <1>3

LEMMA TurnGoes ==
  ASSUME SessionInv, WakeHibernatedSession \/ FinishWake \/ PersistedMetadata \/ RestorePersisted
  PROVE  Goes(proc')
<1>1. PICK c : c = proc'
  OBVIOUS
<1>2. proc.pc \in Waking \cup Loading
  BY DEF WakeHibernatedSession, FinishWake, PersistedMetadata, RestorePersisted, Reached
<1>3. proc.top # "finish"
  BY <1>2, Now DEF CallOK
<1>4. CASE c.top = proc.top /\ c.pc # "respond"
  BY <1>1, <1>3, <1>4, OtherGoes
<1>5. CASE c = Idle
  BY <1>1, <1>5, IdleGoes
<1>6. CASE WakeHibernatedSession
  <2>1. \/ c = Idle
        \/ \E pc \in Pcs \ {"respond"} : \E l, io : c = Call(pc, l, io)
        \/ \E l : c = [DiscardLeased(l) EXCEPT !.then = "ended"]
    BY <1>1, <1>6 DEF WakeHibernatedSession, Pcs
  <2>2. (\E l : c = [DiscardLeased(l) EXCEPT !.then = "ended"]) => c.top = proc.top /\ c.pc = "discarded"
    BY Now DEF DiscardLeased, Call, CallType
  <2> QED
    BY <1>4, <1>5, <2>1, <2>2, CallFields, CallPc
<1>7. CASE FinishWake
  <2>1. \/ c = Idle \/ \E pc, then, s, l : pc # "respond" /\ c = Begin(pc, "continue", then, s, l)
        \/ \E pc, then, s, l : pc # "respond" /\ c = Begin(pc, "fork", then, s, l)
    BY <1>1, <1>7 DEF FinishWake
  <2> QED
    BY <1>1, <2>1, IdleGoes
<1>8. CASE PersistedMetadata
  <2>1. c = Idle \/ \E pc, then, s, l : pc # "respond" /\ c = Begin(pc, proc.top, then, s, l)
    BY <1>1, <1>8 DEF PersistedMetadata
  <2> QED
    BY <1>1, <1>3, <2>1, IdleGoes
<1>9. CASE RestorePersisted
  <2>1. c = Idle \/ \E pc \in Pcs \ {"respond"} : \E l, io : c = Call(pc, l, io)
    BY <1>1, <1>9 DEF RestorePersisted, Pcs
  <2> QED
    BY <1>4, <1>5, <2>1, CallFields, CallPc
<1> QED
  BY <1>6, <1>7, <1>8, <1>9

LEMMA FinishGoes ==
  ASSUME SessionInv, KeptInv, Persisted \/ Retired \/ RetainedSession \/ TaskDiscarded \/ Respond
  PROVE  Goes(proc')
<1>1. PICK c : c = proc'
  OBVIOUS
<1>2. CASE Persisted
  <2>1. CASE proc.ok
    <3>1. \E l, io : c = Call("retired", l, io)
      BY <1>1, <1>2, <2>1 DEF Persisted
    <3>2. c.pc = "retired"
      BY <3>1, CallPc
    <3> QED
      BY <1>1, <1>2, <2>1, <3>2 DEF Goes
  <2>2. CASE ~proc.ok
    <3>1. PICK l, io : c = [Call("retained", l, io) EXCEPT !.top = "retain"]
      BY <1>1, <1>2, <2>2 DEF Persisted
    <3>2. c.top = "retain" /\ c.pc = "retained"
      BY <3>1, Now DEF Call, CallType
    <3> QED
      BY <1>1, <3>2, OtherGoes
  <2> QED
    BY <2>1, <2>2
<1>3. CASE Retired
  <2>1. proc.pc = "retired"
    BY <1>3 DEF Retired, Reached
  <2>2. CASE c = Idle
    BY <1>1, <2>2, IdleGoes
  <2>3. CASE c = Proceed("fit", "none", proc.s, NoLease)
    <3>1. clock' = clock
      BY <1>3 DEF Retired
    <3> QED
      BY <1>1, <2>1, <2>3, <3>1, ProceedGoes
  <2> QED
    BY <1>1, <1>3, <2>2, <2>3 DEF Retired
<1>4. CASE RetainedSession
  <2>1. proc.top # "finish"
    BY <1>4 DEF RetainedSession, Reached, KeptInv, SettledInv
  <2>2. c = Idle \/ (c.top = proc.top /\ c.pc = "fit")
    BY <1>1, <1>4 DEF RetainedSession, Proceed, Enter
  <2> QED
    BY <1>1, <2>1, <2>2, IdleGoes, OtherGoes
<1>5. CASE TaskDiscarded \/ Respond
  <2>1. c = Idle \/ \E pc, then, s, l : pc # "respond" /\ c = Begin(pc, "ended", then, s, l)
    BY <1>1, <1>5 DEF TaskDiscarded, Respond
  <2> QED
    BY <1>1, <2>1, IdleGoes
<1> QED
  BY <1>2, <1>3, <1>4, <1>5

LEMMA OldestHibernatedGoes ==
  ASSUME proc.pc = "fit", clock' = clock, DiscardOldestHibernated
  PROVE  Goes(proc')
<1>1. PICK c : c = proc'
  OBVIOUS
<1>2. PICK v : v = Oldest(InState("hibernated"))
  OBVIOUS
<1>3. CASE DiscardPending(mem[v].lease)
  <2>1. c = Proceed("discard", "fitDiscarded", v, mem[v].lease)
    BY <1>1, <1>2, <1>3 DEF DiscardOldestHibernated
  <2> QED
    BY <1>1, <1>3, <2>1, ProceedGoes
<1>4. CASE ~DiscardPending(mem[v].lease)
  <2>1. PICK io : c = [Proceed("evicted", "none", v, mem[v].lease) EXCEPT !.io = io]
    BY <1>1, <1>2, <1>4 DEF DiscardOldestHibernated
  <2>2. c.pc = "evicted" /\ c.top = proc.top /\ c.s = proc.s
    BY <2>1 DEF Proceed, Enter
  <2> QED
    BY <1>1, <2>2 DEF Goes, Settled
<1> QED
  BY <1>3, <1>4

LEMMA FitGoes ==
  ASSUME Fit
  PROVE  Goes(proc')
<1>1. PICK c : c = proc'
  OBVIOUS
<1>2. proc.pc = "fit" /\ clock' = clock
  BY DEF Fit, Reached
<1>3. PICK v : v = Oldest(InState("resident"))
  OBVIOUS
<1>4. \/ \E ok \in BOOLEAN : InsertEnds(ok)
      \/ DiscardOldestHibernated
      \/ DiscardPending(mem[v].lease) /\ c = Proceed("discard", "fitDiscarded", v, mem[v].lease)
      \/ c = Proceed("hibernating", "none", v, mem[v].lease)
      \/ c = Proceed("lease", "hibernating", v, NoLease)
  BY <1>1, <1>3 DEF Fit
<1> QED
  BY <1>1, <1>2, <1>4, OldestHibernatedGoes, InsertEndsGoes, ProceedGoes

LEMMA FittingGoes ==
  ASSUME SessionInv, FitContinues \/ HibernateStored \/ StoreHibernated \/ RestoreFailedHibernation
  PROVE  Goes(proc')
<1>1. PICK c : c = proc'
  OBVIOUS
<1>2. clock' = clock /\ (InsertEnds(FALSE) => Goes(proc'))
  BY InsertEndsGoes DEF FitContinues, HibernateStored, StoreHibernated, RestoreFailedHibernation
<1>3. ASSUME proc.pc \in {"fitDiscarded", "evicted", "captured"}, c = Proceed("fit", "none", proc.s, NoLease)
      PROVE  Goes(proc')
  BY <1>1, <1>2, <1>3, ProceedGoes
<1>4. CASE FitContinues \/ StoreHibernated \/ RestoreFailedHibernation
  <2>1. \/ InsertEnds(FALSE)
        \/ proc.pc \in {"fitDiscarded", "evicted", "captured"} /\ c = Proceed("fit", "none", proc.s, NoLease)
    BY <1>1, <1>4 DEF FitContinues, StoreHibernated, RestoreFailedHibernation, Reached
  <2> QED
    BY <1>2, <1>3, <2>1
<1>5. CASE HibernateStored
  <2>1. proc.pc = "hibernating"
    BY <1>5 DEF HibernateStored, Reached
  <2>2. CASE \E pc \in {"captured", "uncaptured"} : \E l, io : c = Call(pc, l, io)
    <3>1. c.top = proc.top /\ c.s = proc.s /\ c.pc \in {"captured", "uncaptured"}
      BY <2>2, CallFields, CallPc
    <3> QED
      BY <1>1, <1>2, <2>1, <3>1 DEF Goes, Settled
  <2>3. CASE \E l : c = [DiscardLeased(l) EXCEPT !.then = "lost"]
    <3>1. c.pc = "discarded" /\ c.then = "lost"
      BY <2>3, Now DEF DiscardLeased, Call, CallType
    <3> QED
      BY <1>1, <3>1 DEF Goes, Settled
  <2> QED
    BY <1>1, <1>2, <1>5, <2>2, <2>3 DEF HibernateStored
<1> QED
  BY <1>4, <1>5

LEMMA ServerStepGoes ==
  ASSUME SessionInv, KeptInv, ServerStep
  PROVE  Goes(proc')
<1>1. CASE ContinueCold \/ AttachResidentSession \/ FinishWakeError \/ ReferenceRestored
  BY <1>1, IdleGoes DEF ContinueCold, AttachResidentSession, FinishWakeError, ReferenceRestored
<1> QED
  BY <1>1, TurnGoes, FinishGoes, FitGoes, FittingGoes DEF ServerStep

LEMMA RequestGoes ==
  ASSUME SessionInv, NEW s \in Sessions,
         \/ LeaseContinueSession(s) \/ PersistChatSession(s) \/ RetainFailedSession(s)
         \/ \E why \in {"cancelled", "ended"} : DiscardStoredSession(s, why)
  PROVE  Goes(proc')
<1>1. PICK c : c = proc'
  OBVIOUS
<1>2. CASE LeaseContinueSession(s)
  <2>1. PICK l : l = mem[s].lease
    OBVIOUS
  <2>2. mem[s].at \in {"absent", "resident", "hibernated"}
    BY <1>2, Now DEF Held, LeaseContinueSession
  <2>3. CASE DiscardPending(l)
    <3>1. mem[s].at # "absent"
      BY <2>1, <2>3, Now, LeaseFacts DEF SessionOK
    <3>2. c = Begin("discard", "continue", "cold", s, l)
      BY <1>1, <1>2, <2>1, <2>3, <3>1 DEF LeaseContinueSession
    <3> QED
      BY <1>1, <3>2, IdleGoes
  <2>4. CASE ~DiscardPending(l)
    <3>1. \E pc \in {"lease", "attach", "wake"} : \E then, k : c = Begin(pc, "continue", then, s, k)
      BY <1>1, <1>2, <2>1, <2>2, <2>4 DEF LeaseContinueSession
    <3> QED
      BY <1>1, <3>1, IdleGoes
  <2> QED
    BY <2>3, <2>4
<1>3. CASE PersistChatSession(s)
  <2>1. c.pc = "persisted"
    BY <1>1, <1>3 DEF PersistChatSession, Begin, Enter
  <2> QED
    BY <1>1, <2>1 DEF Goes, Settled
<1>4. CASE RetainFailedSession(s)
  <2>1. c.pc = "retained" /\ c.top = "retain"
    BY <1>1, <1>4 DEF RetainFailedSession, Begin, Enter
  <2> QED
    BY <1>1, <2>1, OtherGoes
<1>5. CASE \E why \in {"cancelled", "ended"} : DiscardStoredSession(s, why)
  <2>1. PICK why \in {"cancelled", "ended"} : c = Begin("discard", why, why, s, mem[s].lease)
    BY <1>1, <1>5 DEF DiscardStoredSession
  <2> QED
    BY <1>1, <2>1, IdleGoes
<1> QED
  BY <1>2, <1>3, <1>4, <1>5

\* What a client was told changes when it is told more, and is forgotten when the server
\* decides to discard the session.
Tells == \A s \in Sessions : \/ kept'[s] = kept[s] \/ kept'[s] = 0
                             \/ Respond /\ proc.ok /\ s = proc.s /\ kept'[s] = clock

LEMMA ControlTells ==
  ASSUME SessionInv, ServerStep \/ StoreControl \/ Request
  PROVE  Tells
<1>1. kept \in [Sessions -> Nat] /\ proc.s \in Sessions /\ proc.v \in Sessions
  BY Now DEF TypeInv
<1>2. CASE kept' = kept
  BY <1>2 DEF Tells
<1>3. CASE \E x \in Sessions : kept' = [kept EXCEPT ![x] = 0]
  BY <1>1, <1>3 DEF Tells
<1>4. CASE Respond /\ proc.ok /\ kept' = [kept EXCEPT ![proc.s] = clock]
  BY <1>1, <1>4 DEF Tells
<1>5. CASE Respond
  BY <1>2, <1>4, <1>5 DEF Respond
<1>6. CASE WakeHibernatedSession \/ HibernateStored \/ DiscardSession
  <2>1. kept' = kept \/ \E x \in Sessions : kept' = [kept EXCEPT ![x] = 0]
    BY <1>1, <1>6 DEF WakeHibernatedSession, HibernateStored, DiscardSession
  <2> QED
    BY <1>2, <1>3, <2>1
<1>7. CASE Request
  <2>1. kept' = kept
    BY <1>7 DEF Request, LeaseContinueSession, LeaseForkSession, PersistChatSession, RetainFailedSession,
                DiscardStoredSession, history_vars
  <2> QED
    BY <1>2, <2>1
<1>8. CASE TakeRecoveryLease \/ Resolved \/ LeaseActive \/ Leasing \/ Unleasing \/ Discarded
  <2>1. kept' = kept
    BY <1>8 DEF TakeRecoveryLease, Resolved, LeaseActive, Leasing, Unleasing, Discarded, history_vars
  <2> QED
    BY <1>2, <2>1
<1>9. CASE \/ ContinueCold \/ AttachResidentSession \/ FinishWake \/ FinishWakeError
           \/ PersistedMetadata \/ RestorePersisted \/ ReferenceRestored
           \/ Persisted \/ Retired \/ RetainedSession \/ TaskDiscarded
           \/ Fit \/ FitContinues \/ StoreHibernated \/ RestoreFailedHibernation
  <2>1. kept' = kept
    BY <1>9 DEF ContinueCold, AttachResidentSession, FinishWake, FinishWakeError, PersistedMetadata,
                RestorePersisted, ReferenceRestored, Persisted, Retired, RetainedSession, TaskDiscarded,
                Fit, FitContinues, StoreHibernated, RestoreFailedHibernation, history_vars
  <2> QED
    BY <1>2, <2>1
<1> QED
  BY <1>5, <1>6, <1>7, <1>8, <1>9 DEF ServerStep, StoreControl

\* A session comes up for its discard when the server decides so.
LEMMA FlowDiscards ==
  ASSUME LeaseFlow, TableInv', NEW s \in Sessions, AnyDiscard(mem'[s].lease, table'[s], InHand(proc', s))
  PROVE  \/ AnyDiscard(mem[s].lease, table[s], InHand(proc, s))
         \/ kept'[s] = 0 /\ proc'.pc = "discarded" /\ proc'.v = s
<1>1. PICK x \in Sessions : /\ \A r \in Sessions \ {x} : mem'[r].lease = mem[r].lease /\ table'[r] = table[r]
                            /\ Flows(x, mem'[x], table'[x], proc')
  BY DEF LeaseFlow
<1>2. PICK c : c = proc'
  OBVIOUS
<1>3. CASE s = x
  <2>1. \/ AnyDiscard(mem[s].lease, table[s], InHand(proc, s))
        \/ kept'[s] = 0 /\ c.pc = "discarded" /\ (c.v = s \/ c.lease = NoLease)
    BY <1>1, <1>2, <1>3 DEF Flows
  <2>2. c.pc = "discarded" => c.lease # NoLease
    BY <1>2 DEF TableInv, TableOK
  <2> QED
    BY <1>2, <2>1, <2>2
<1>4. CASE s # x
  <2>1. c.v = x \/ c.lease = NoLease
    BY <1>1, <1>2 DEF Flows
  <2>2. InHand(proc', s) = NoLease
    BY <1>2, <1>4, <2>1 DEF InHand
  <2> QED
    BY <1>1, <1>4, <2>2, LeaseFacts DEF AnyDiscard
<1> QED
  BY <1>3, <1>4

\* A persist that has succeeded: every start loads it.
LEMMA PersistedHolds ==
  ASSUME SessionInv, FilesInv, TableInv, DiskInv, Persisted, proc.ok
  PROVE  /\ \A ns \in durable : Recovered(ns, proc.s) >= clock
         /\ ~AnyDiscard(mem[proc.s].lease, table[proc.s], InHand(proc, proc.s))
         /\ clock' = clock /\ proc'.s = proc.s /\ proc'.pc = "retired" /\ proc.s \in Sessions
<1>1. proc.pc = "persisted" /\ proc.io = <<>> /\ Len(<<>>) = 0 /\ clock' = clock
  BY EmptyFacts DEF Persisted, Reached
<1>2. PICK s \in Sessions : s = proc.s /\ s = proc.v
  BY <1>1, Now DEF CallOK, Fitting
<1>3. clock # 0 /\ LastUsed(disk, s, Reference) = clock /\ SyncedDir(Reference)
  BY <1>1, <1>2 DEF FilesInv, PersistInv, PersistOK
<1>4. ASSUME NEW ns \in durable
      PROVE  Recovered(ns, s) >= clock
  <2>1. ~Marked(ns, s)
    BY <1>1, <1>2, PersistUnmarked
  <2>2. {f \in ns.files : f.intent = "Active"} = {f \in disk.files : f.intent = "Active"}
    BY <1>3 DEF SyncedDir, Directory, Reference
  <2>3. At(ns, s, Reference) = At(disk, s, Reference)
    BY <2>2 DEF At, Reference
  <2>4. LastUsed(ns, s, Reference) = clock
    BY <1>3, <2>3 DEF LastUsed, Exists
  <2>5. Exists(ns, s, Reference)
    BY <1>3, <2>4 DEF LastUsed
  <2>6. Recovered(ns, s) = clock
    BY <2>1, <2>4, <2>5 DEF Recovered
  <2>7. clock \in 0 .. MaxClock
    BY Now DEF TypeInv
  <2> QED
    BY <2>6, <2>7
<1>5. proc'.s = proc.s /\ proc'.pc = "retired"
  <2>1. PICK c : c = proc'
    OBVIOUS
  <2>2. \E l, io : c = Call("retired", l, io)
    BY <2>1 DEF Persisted
  <2> QED
    BY <2>1, <2>2, CallFields, CallPc
<1> QED
  BY <1>1, <1>2, <1>4, <1>5, PersistUnmarked

\* A step that runs no operation.
LEMMA ControlKept ==
  ASSUME SessionInv, SessionInv', FilesInv, TableInv, TableInv', DiskInv, KeptInv, LeaseFlow, Goes(proc'), Tells
  PROVE  KeptInv'
<1>1. PICK c : c = proc'
  OBVIOUS
<1>2. durable' = durable /\ kept \in [Sessions -> Nat] /\ proc.s \in Sessions /\ c.s \in Sessions /\ c.v \in Sessions
  <2>1. proc' \in CallType
    BY DEF SessionInv, TypeInv
  <2> QED
    BY <1>1, <2>1, Now DEF LeaseFlow, TypeInv, CallType
<1>3. ASSUME Respond, proc.ok
      PROVE  Settled(proc) /\ proc'.pc # "discarded"
  <2>1. proc.pc = "respond"
    BY <1>3 DEF Respond, Reached
  <2>2. Settled(proc)
    BY <1>3, <2>1 DEF KeptInv, SettledInv, Settled
  <2>3. proc'.pc # "discarded"
    BY <1>3, IdleFacts DEF Respond, Begin, Enter
  <2> QED
    BY <2>2, <2>3
<1>4. ASSUME Settled(proc)
      PROVE  /\ \A ns \in durable : Recovered(ns, proc.s) >= clock
             /\ ~AnyDiscard(mem[proc.s].lease, table[proc.s], InHand(proc, proc.s))
             /\ proc.pc \in DiscardPcs => proc.v # proc.s
  BY <1>4 DEF KeptInv, SettledInv
<1>5. DiscardKept'
  <2> SUFFICES ASSUME NEW s \in Sessions, AnyDiscard(mem'[s].lease, table'[s], InHand(proc', s))
               PROVE  kept'[s] = 0
    BY DEF DiscardKept
  <2>1. CASE kept'[s] = 0
    BY <2>1
  <2>2. CASE AnyDiscard(mem[s].lease, table[s], InHand(proc, s))
    <3>1. kept[s] = 0
      BY <2>2 DEF KeptInv, DiscardKept
    <3>2. ~(Respond /\ proc.ok /\ s = proc.s)
      BY <1>3, <1>4, <2>2
    <3> QED
      BY <3>1, <3>2 DEF Tells
  <2> QED
    BY <2>1, <2>2, FlowDiscards
<1>6. KeptFiles'
  <2> SUFFICES ASSUME NEW s \in Sessions, kept'[s] # 0
               PROVE  \A ns \in durable : Recovered(ns, s) >= kept'[s]
    BY <1>2 DEF KeptFiles
  <2>1. CASE kept'[s] = kept[s]
    BY <2>1 DEF KeptInv, KeptFiles
  <2>2. CASE Respond /\ proc.ok /\ s = proc.s /\ kept'[s] = clock
    BY <1>3, <1>4, <2>2
  <2> QED
    BY <2>1, <2>2 DEF Tells
<1>7. ASSUME Settled(c)
      PROVE  /\ \A ns \in durable : Recovered(ns, c.s) >= clock'
             /\ ~AnyDiscard(mem'[c.s].lease, table'[c.s], InHand(proc', c.s))
             /\ c.pc \in DiscardPcs => c.v # c.s
  <2>1. CASE Persisted /\ proc.ok
    <3>1. /\ \A ns \in durable : Recovered(ns, proc.s) >= clock
          /\ ~AnyDiscard(mem[proc.s].lease, table[proc.s], InHand(proc, proc.s))
          /\ clock' = clock /\ c.s = proc.s /\ c.pc = "retired"
      BY <1>1, <2>1, PersistedHolds
    <3>2. ~AnyDiscard(mem'[c.s].lease, table'[c.s], InHand(proc', c.s))
      BY <1>1, <1>2, <3>1, FlowDiscards
    <3> QED
      BY <3>1, <3>2
  <2>2. CASE ~(Persisted /\ proc.ok)
    <3>1. /\ Settled(proc) /\ c.s = proc.s /\ clock' = clock
          /\ c.pc = "discard" => DiscardPending(mem[c.v].lease)
          /\ c.pc = "discarded" => proc.pc = "discard" /\ c.v = proc.v
      BY <1>1, <1>7, <2>2 DEF Goes
    <3>2. /\ \A ns \in durable : Recovered(ns, proc.s) >= clock
          /\ ~AnyDiscard(mem[proc.s].lease, table[proc.s], InHand(proc, proc.s))
          /\ proc.pc \in DiscardPcs => proc.v # proc.s
      BY <1>4, <3>1
    <3>3. c.pc = "discarded" => c.v # c.s
      BY <3>1, <3>2
    <3>4. c.pc = "discard" => c.v # c.s
      BY <3>1, <3>2 DEF AnyDiscard
    <3>5. ~AnyDiscard(mem'[c.s].lease, table'[c.s], InHand(proc', c.s))
      BY <1>1, <1>2, <3>1, <3>2, <3>3, FlowDiscards
    <3> QED
      BY <3>1, <3>2, <3>3, <3>4, <3>5
  <2> QED
    BY <2>1, <2>2
<1>8. SettledInv'
  <2>1. (c.pc = "retained" => c.top # "finish") /\ (c.pc = "respond" => c.top = "finish")
    BY <1>1 DEF Goes
  <2> QED
    BY <1>1, <1>2, <1>7, <2>1 DEF SettledInv
<1> QED
  BY <1>5, <1>6, <1>8 DEF KeptInv

\* A start finds what is durable.
LEMMA StartKept ==
  ASSUME SessionInv, KeptInv, Crash \/ Panic \/ RecoverQuarantine \/ LoadSessionArchives
  PROVE  KeptInv'
<1>1. PICK c : c = proc'
  OBVIOUS
<1>2. /\ durable' \subseteq durable /\ kept' = kept
      /\ \A s \in Sessions : mem'[s].lease = NoLease /\ table'[s] = NoLease
      /\ c.pc \in {"recover", "load", "idle"} /\ c.lease = NoLease /\ ~Settled(c)
  <2>1. CASE Crash \/ Panic
    <3>1. /\ durable' \subseteq durable /\ kept' = kept /\ c = [Idle EXCEPT !.pc = "recover"]
          /\ mem' = [s \in Sessions |-> Absent] /\ table' = [s \in Sessions |-> NoLease]
      BY <1>1, <2>1 DEF Crash, Panic, Start
    <3>2. c.pc = "recover" /\ c.lease = NoLease
      BY <3>1, IdleFacts DEF CallType
    <3> QED
      BY <3>1, <3>2, AbsentFacts DEF Settled
  <2>2. CASE RecoverQuarantine \/ LoadSessionArchives
    <3>1. /\ durable' = durable /\ kept' = kept /\ mem' = mem /\ table' = table /\ Starting
      BY <2>2 DEF RecoverQuarantine, LoadSessionArchives, disk_vars, history_vars, Reached, Starting
    <3>2. \A s \in Sessions : mem'[s].lease = NoLease /\ table'[s] = NoLease
      BY <3>1, StartNow, AbsentFacts
    <3>3. \/ c = Idle
          \/ RecoverQuarantine /\ \E v, io : c = [proc EXCEPT !.v = v, !.io = io, !.ok = TRUE]
          \/ \E pc \in {"load", "recover"} : \E io : c = Call(pc, NoLease, io)
      BY <1>1, <2>2 DEF RecoverQuarantine, LoadSessionArchives
    <3>4. CASE c = Idle
      BY <3>1, <3>2, <3>4, IdleFacts DEF Settled
    <3>5. CASE RecoverQuarantine /\ \E v, io : c = [proc EXCEPT !.v = v, !.io = io, !.ok = TRUE]
      <4>1. proc.pc = "recover" /\ proc.lease = NoLease
        BY <3>1, <3>5, StartNow DEF RecoverQuarantine, Reached
      <4>2. c.pc = "recover" /\ c.lease = NoLease
        BY <3>5, <4>1, Now DEF CallType
      <4> QED
        BY <3>1, <3>2, <4>2 DEF Settled
    <3>6. CASE \E pc \in {"load", "recover"} : \E io : c = Call(pc, NoLease, io)
      <4>1. c.pc \in {"load", "recover"} /\ c.lease = NoLease
        BY <3>6, CallScripted
      <4> QED
        BY <3>1, <3>2, <4>1 DEF Settled
    <3> QED
      BY <3>3, <3>4, <3>5, <3>6
  <2> QED
    BY <2>1, <2>2
<1>3. \A s \in Sessions : InHand(proc', s) = NoLease
  BY <1>1, <1>2 DEF InHand
<1>4. DiscardKept'
  BY <1>2, <1>3, LeaseFacts DEF DiscardKept, AnyDiscard
<1>5. KeptFiles'
  BY <1>2 DEF KeptFiles, KeptInv
<1>6. SettledInv'
  BY <1>1, <1>2 DEF SettledInv
<1> QED
  BY <1>4, <1>5, <1>6 DEF KeptInv

LEMMA NextKeptInv ==
  ASSUME ForkParents = {}
  PROVE  SessionInv /\ SessionInv' /\ OneInv /\ FilesInv /\ TableInv /\ TableInv' /\ DiskInv
           /\ KeptInv /\ [Next]_vars => KeptInv'
<1> SUFFICES ASSUME SessionInv, SessionInv', OneInv, FilesInv, TableInv, TableInv', DiskInv, KeptInv, [Next]_vars
             PROVE  KeptInv'
  OBVIOUS
<1>1. CASE IoSucceeds \/ IoFails
  BY <1>1, IoSucceedsKept, IoFailsKept
<1>2. CASE Crash \/ Panic \/ RecoverQuarantine \/ LoadSessionArchives
  BY <1>2, StartKept
<1>3. CASE ServerStep
  BY <1>3, ServerStepFlows, ServerStepGoes, ControlTells, ControlKept
<1>4. CASE StoreControl
  BY <1>4, StoreControlFlows, StoreControlGoes, ControlTells, ControlKept
<1>5. CASE Request
  <2>1. PICK s \in Sessions : \/ LeaseContinueSession(s) \/ LeaseForkSession(s)
                              \/ PersistChatSession(s) \/ RetainFailedSession(s)
                              \/ \E why \in {"cancelled", "ended"} : DiscardStoredSession(s, why)
    BY <1>5 DEF Request
  <2>2. ~LeaseForkSession(s) /\ LeaseFlow /\ Tells
    BY <1>5, RequestFlows, ControlTells DEF LeaseForkSession
  <2>3. Goes(proc')
    BY <2>1, <2>2, RequestGoes
  <2> QED
    BY <2>2, <2>3, ControlKept
<1>6. CASE UNCHANGED vars
  <2>1. Settled(proc') <=> Settled(proc)
    BY <1>6 DEF vars, Settled
  <2> QED
    BY <1>6, <2>1 DEF vars, KeptInv, DiscardKept, KeptFiles, SettledInv
<1> QED
  BY <1>1, <1>2, <1>3, <1>4, <1>5, <1>6 DEF Next, StoreStep, StoreControl

LEMMA InitKeptInv == Init => KeptInv
<1> SUFFICES ASSUME Init
             PROVE  KeptInv
  OBVIOUS
<1>1. proc.pc = "idle" /\ proc.top = "none" /\ \A s \in Sessions : kept[s] = 0
  BY IdleFacts DEF Init
<1> QED
  BY <1>1 DEF KeptInv, DiscardKept, KeptFiles, SettledInv, Settled

LEMMA KeptInvAlways ==
  ASSUME ForkParents = {}
  PROVE  Spec => [](SessionInv /\ FilesInv /\ KeptInv)
<1>1. Init => KeptInv
  BY InitKeptInv
<1>2. SessionInv /\ SessionInv' /\ OneInv /\ FilesInv /\ TableInv /\ TableInv' /\ DiskInv
        /\ KeptInv /\ [Next]_vars => KeptInv'
  BY NextKeptInv
<1> QED
  BY <1>1, <1>2, DiskInvAlways, PTL DEF Spec

\* While no running session is forked, a session whose response was delivered is loaded by
\* every start, no older than the response and with its archive, whatever file operation
\* fails and whenever the machine stops, until the server decides to discard it: persist
\* publishes the reference once its archive is durable, retire and restore remove no
\* reference without a newer one, and a reference in quarantine is loaded with its intent.
THEOREM KeptAlwaysSurvives ==
  ASSUME ForkParents = {}
  PROVE  Spec => []KeptSurvives
<1>1. SessionInv /\ FilesInv /\ KeptInv => KeptSurvives
  <2> SUFFICES ASSUME SessionInv, FilesInv, KeptInv, NEW s \in Sessions, kept[s] # 0, NEW ns \in durable
               PROVE  Recovered(ns, s) >= kept[s] /\ <<s, Recovered(ns, s)>> \in ns.blobs
    BY DEF KeptSurvives
  <2>1. Recovered(ns, s) >= kept[s] /\ kept[s] \in Nat
    BY Now DEF KeptInv, KeptFiles, TypeInv
  <2>2. Recovered(ns, s) # 0
    BY <2>1
  <2>3. ns \in Namespace /\ FilesOK(ns, s)
    BY Now DEF FilesInv, FileInv, TypeInv
  <2>4. ~Marked(ns, s)
    BY <2>2, <2>3, RecoveredFacts
  <2>5. PICK f : Latest(ns, s, f)
    BY <2>2, <2>3, <2>4, RecoveredFacts
  <2>6. Recovered(ns, s) = f.last_used /\ f \in Of(ns, s)
    BY <2>3, <2>4, <2>5, RecoveredFacts DEF Latest
  <2>7. <<s, f.last_used>> \in ns.blobs
    BY <2>3, <2>6 DEF FilesOK
  <2> QED
    BY <2>1, <2>6, <2>7
<1> QED
  BY <1>1, KeptInvAlways, PTL

-----------------------------------------------------------------------------
(* The cached archive of a session *)

\* lease_reference resolves a retained lease to one in quarantine: the steps keep it there or
\* at the reference.
Quarantining(io) == \A i \in 1 .. Len(io) : io[i].op = "refuse" \/ io[i].lease.state \in {"Restore", "Active"}

\* A lease that persisted_metadata reads is the only reference of its session.
ReadsOK(c) ==
  /\ c.pc = "metadata" /\ c.lease.state = "Restore" => ~Exists(disk, c.v, Reference)
  /\ c.pc = "resolved" =>
       /\ c.lease.state \in {"Restore", "Active"} /\ Quarantining(c.io)
       /\ c.lease.state = "Restore" /\ c.ok => ~Exists(disk, c.v, Reference) \/ c.io = Refuse

MetaInv == ReadsOK(proc)

\* A persist that publishes, and a discard, are ahead of the cache until they end.
Ahead(c, s) == c.v = s /\ c.pc \in {"persisted", "discarded"}

CacheDiscard ==
  \A s \in Sessions : AnyDiscard(mem[s].lease, table[s], InHand(proc, s)) =>
                        persisted[s] = 0 \/ (proc.pc = "discarded" /\ proc.v = s)

CacheFiles == \A s \in Sessions : persisted[s] # 0 /\ ~Ahead(proc, s) => persisted[s] = Recovered(disk, s)

CacheCall ==
  /\ Starting => \A s \in Sessions : persisted[s] = 0
  /\ proc.pc = "persisted" => mem[proc.v].last_used = clock

CacheInv == MetaInv /\ CacheDiscard /\ CacheFiles /\ CacheCall

\* Only a lease for a discard is moved to a marker.
LEMMA StepMarks ==
  ASSUME SessionInv, IoSucceeds, NEW step, step = Head(proc.io), step = proc.io[1], step \in Step, CanDo(step),
         step.op = "move", step.to.intent = "Discard"
  PROVE  DiscardPending(proc.lease)
<1>1. PICK l \in Lease : l = proc.lease
  BY Now
<1>2. proc.io # <<>>
  BY DEF IoSucceeds
<1>3. ~Starting
  <2> SUFFICES ASSUME Starting
               PROVE  FALSE
    OBVIOUS
  <2>1. proc.io \in Seq(Step) /\ 1 \in 1 .. Len(proc.io)
    BY <1>2, Now, HeadFacts DEF CallType
  <2>2. step.to = Reference
    BY <2>1, StartNow DEF StartScript, MovesToRefs
  <2> QED
    BY <2>2 DEF Reference
<1>4. Sames(l, step) \/ MovesLease(l, step) \/ Ends(l, step, proc.io)
  BY <1>1, <1>2, <1>3, StepKinds
<1>5. MovesLease(l, step)
  BY <1>4 DEF Sames, Ends
<1>6. PICK k \in Lease : k = step.lease
  BY DEF Step
<1>7. step.to = PlaceOf(k) /\ k.state \in {"Restore", "Active", "Superseded", "Discard"} /\ (k.state = "Discard" => l.discard)
  BY <1>5, <1>6 DEF MovesLease
<1>8. LiveLease(k)
  BY <1>7 DEF LiveLease
<1>9. k.state = "Discard"
  BY <1>6, <1>7, <1>8, PlaceIntent
<1> QED
  BY <1>1, <1>7, <1>9 DEF DiscardPending

\* An operation keeps what a start loads of a session that is cached.
LEMMA StepCaches ==
  ASSUME SessionInv, OneInv, FilesInv, DiskInv, IoSucceeds, NEW s \in Sessions, ~Ahead(proc, s),
         ~DiscardPending(InHand(proc, s))
  PROVE  Recovered(disk', s) = Recovered(disk, s)
<1>1. PICK step : step = Head(proc.io)
  OBVIOUS
<1>2. PICK n : n = disk'
  OBVIOUS
<1>3. /\ CanDo(step) /\ step.op \in {"move", "remove", "sync", "link", "publish"} /\ Operates(n, step)
      /\ step = proc.io[1] /\ step \in Step
      /\ step.op \in {"link", "publish"} => proc.pc = "persisted"
  BY <1>1, <1>2, NextOperation
<1>4. CASE s # proc.v
  <2>1. Of(n, s) = Of(disk, s)
    BY <1>3, <1>4 DEF Operates
  <2> QED
    BY <1>2, <2>1, SameRecovered
<1>5. CASE s = proc.v
  <2>1. step.op # "publish"
    BY <1>3, <1>5 DEF Ahead
  <2>2. InHand(proc, s) = proc.lease
    BY <1>5 DEF InHand
  <2>3. ~(step.op = "move" /\ step.to.intent = "Discard")
    BY <1>1, <1>3, <2>2, StepMarks
  <2>4. Keeping(step)
    BY <2>1, <2>3 DEF Keeping
  <2> QED
    BY <1>2, <1>3, <1>5, <2>4 DEF Operates
<1> QED
  BY <1>4, <1>5

\* A reference that a lease moves to quarantine is gone.
LEMMA MovedAway ==
  ASSUME SessionInv, NEW step \in Step, step.op = "move", step.path = Reference, step.to.intent = "Restore",
         NEW n, n = Effect(step)
  PROVE  ~Exists(n, proc.v, Reference)
<1>1. PICK x \in Sessions : x = proc.v
  BY Now
<1>2. /\ disk \in Namespace /\ IsFiniteSet(disk.files)
      /\ step.path \in Paths /\ step.to \in Paths
  BY Now, DiskFacts DEF Step
<1>3. PICK ns \in Namespace : ns = Drop(disk, x, Reference) /\ IsFiniteSet(ns.files) /\ ~Exists(ns, x, Reference)
  BY <1>2, DropFacts
<1>4. PICK u \in 0 .. MaxClock : u = LastUsed(disk, x, Reference)
  BY <1>2, PathFacts, LastUsedFacts
<1>5. n = Put(ns, x, step.to, u)
  BY <1>1, <1>3, <1>4, EffectFacts
<1>6. /\ n.files = (ns.files \ At(ns, x, step.to)) \cup {Written(x, step.to, u)}
      /\ Written(x, step.to, u).intent = "Restore"
  BY <1>2, <1>3, <1>5, PutFacts
<1>7. ~Exists(n, x, Reference)
  BY <1>3, <1>6, PathFacts DEF Exists, At
<1> QED
  BY <1>1, <1>7

\* The operations of lease_reference.
LEMMA StepMeta ==
  ASSUME SessionInv, OneInv, FilesInv, DiskInv, MetaInv, IoSucceeds
  PROVE  MetaInv'
<1>1. PICK step : step = Head(proc.io)
  OBVIOUS
<1>2. PICK n : n = disk'
  OBVIOUS
<1>3. /\ CanDo(step) /\ step.op \in {"move", "remove", "sync", "link", "publish"} /\ Operates(n, step)
      /\ step = proc.io[1] /\ step \in Step
      /\ step.op \in {"link", "publish"} => proc.pc = "persisted"
      /\ proc'.pc = proc.pc /\ proc'.v = proc.v /\ proc'.ok = proc.ok /\ proc'.lease = step.lease
      /\ proc'.io = Tail(proc.io)
  BY <1>1, <1>2, NextOperation
<1>4. proc.io \in Seq(Step) /\ proc.io # <<>> /\ 1 \in 1 .. Len(proc.io)
  BY Now, HeadFacts DEF IoSucceeds, CallType
<1>5. proc.pc # "metadata"
  BY <1>4, Now DEF CallOK
<1>6. n = Effect(step)
  BY <1>1, <1>2 DEF IoSucceeds
<1>7. ASSUME proc.pc = "resolved"
      PROVE  /\ step.lease.state \in {"Restore", "Active"} /\ Quarantining(Tail(proc.io))
             /\ step.lease.state = "Restore" => ~Exists(n, proc.v, Reference)
  <2>1. proc.lease.state \in {"Restore", "Active"} /\ Quarantining(proc.io)
    BY <1>7 DEF MetaInv, ReadsOK
  <2>2. step.lease.state \in {"Restore", "Active"}
    BY <1>3, <1>4, <2>1 DEF Quarantining
  <2>3. Quarantining(Tail(proc.io))
    <3>1. PICK t \in Seq(Step) : t = Tail(proc.io) /\ \A i \in 1 .. Len(t) : i + 1 \in 1 .. Len(proc.io) /\ t[i] = proc.io[i + 1]
      BY <1>4, HeadFacts
    <3> QED
      BY <2>1, <3>1 DEF Quarantining
  <2>4. ASSUME step.lease.state = "Restore"
        PROVE  ~Exists(n, proc.v, Reference)
    <3>1. PICK l \in Lease, k \in Lease : l = proc.lease /\ k = step.lease
      BY <1>3, Now DEF Step
    <3>2. ~Starting
      BY <1>7 DEF Starting
    <3>3. Sames(l, step) \/ MovesLease(l, step) \/ Ends(l, step, proc.io)
      BY <1>1, <1>3, <1>4, <3>1, <3>2, StepKinds
    <3>4. CASE l.state = "Restore"
      <4>1. proc.io # Refuse
        <5>1. Refuse[1].op = "refuse"
          BY DEF Refuse, Do
        <5> QED
          BY <1>3, <5>1
      <4>2. proc.ok
        BY <1>4, Now DEF CallOK
      <4>3. ~Exists(disk, proc.v, Reference)
        BY <1>7, <3>1, <3>4, <4>1, <4>2 DEF MetaInv, ReadsOK
      <4>4. ~(step.op = "move" /\ step.to.intent = "Active")
        <5> SUFFICES ASSUME step.op = "move", step.to.intent = "Active"
                     PROVE  FALSE
          OBVIOUS
        <5>1. MovesLease(l, step)
          BY <3>3 DEF Sames, Ends
        <5>2. step.to = PlaceOf(k)
          BY <3>1, <5>1 DEF MovesLease
        <5> QED
          BY <2>4, <3>1, <5>2 DEF PlaceOf, Quarantine
      <4> QED
        BY <1>3, <1>7, <4>3, <4>4 DEF Operates
    <3>5. CASE l.state = "Active"
      <4>1. MovesLease(l, step)
        BY <2>4, <3>1, <3>3, <3>5 DEF Sames, Ends, SameLease
      <4>2. step.op = "move" /\ step.path = Reference /\ step.to = Quarantine(k.nonce, "Restore")
        BY <2>4, <3>1, <3>5, <4>1, LeaseFacts DEF MovesLease, PlaceOf
      <4>3. step.to.intent = "Restore"
        BY <4>2 DEF Quarantine
      <4> QED
        BY <1>2, <1>3, <1>6, <4>2, <4>3, MovedAway
    <3> QED
      BY <2>1, <3>1, <3>4, <3>5
  <2> QED
    BY <2>2, <2>3, <2>4
<1> QED
  BY <1>2, <1>3, <1>5, <1>7 DEF MetaInv, ReadsOK

LEMMA IoSucceedsCache ==
  ASSUME SessionInv, OneInv, FilesInv, DiskInv, CacheInv, IoSucceeds
  PROVE  CacheInv'
<1>1. PICK step : step = Head(proc.io)
  OBVIOUS
<1>2. /\ proc'.pc = proc.pc /\ proc'.v = proc.v /\ proc'.lease = step.lease
      /\ mem' = mem /\ table' = table /\ clock' = clock /\ persisted' = persisted
  BY <1>1, NextOperation DEF IoSucceeds
<1>3. ASSUME NEW s \in Sessions, AnyDiscard(mem[s].lease, table[s], InHand(proc', s))
      PROVE  AnyDiscard(mem[s].lease, table[s], InHand(proc, s))
  <2>1. DiscardPending(InHand(proc', s)) => DiscardPending(InHand(proc, s))
    <3>1. CASE s = proc.v
      BY <1>1, <1>2, <3>1, StepDiscards DEF InHand
    <3>2. CASE s # proc.v
      BY <1>2, <3>2 DEF InHand
    <3> QED
      BY <3>1, <3>2
  <2> QED
    BY <1>3, <2>1 DEF AnyDiscard
<1>4. CacheDiscard'
  BY <1>2, <1>3 DEF CacheDiscard, CacheInv
<1>5. CacheFiles'
  <2> SUFFICES ASSUME NEW s \in Sessions, persisted[s] # 0, ~Ahead(proc, s)
               PROVE  persisted[s] = Recovered(disk', s)
    BY <1>2 DEF CacheFiles, Ahead
  <2>1. ~AnyDiscard(mem[s].lease, table[s], InHand(proc, s))
    BY DEF CacheInv, CacheDiscard, Ahead
  <2>2. ~DiscardPending(InHand(proc, s))
    BY <2>1 DEF AnyDiscard
  <2>3. Recovered(disk', s) = Recovered(disk, s)
    BY <2>2, StepCaches
  <2> QED
    BY <2>3 DEF CacheInv, CacheFiles
<1>6. CacheCall'
  BY <1>2 DEF CacheCall, CacheInv, Starting
<1>7. MetaInv'
  BY StepMeta DEF CacheInv
<1> QED
  BY <1>4, <1>5, <1>6, <1>7 DEF CacheInv

LEMMA IoFailsCache ==
  ASSUME SessionInv, CacheInv, IoFails
  PROVE  CacheInv'
<1>1. /\ proc'.pc = proc.pc /\ proc'.v = proc.v /\ proc'.lease = proc.lease /\ proc'.io = <<>> /\ ~proc'.ok
      /\ UNCHANGED <<disk, mem, table, clock, persisted>>
  BY Now DEF IoFails, CallType
<1>2. proc.pc # "metadata"
  BY Now DEF IoFails, CallOK
<1>3. \A s : InHand(proc', s) = InHand(proc, s)
  BY <1>1 DEF InHand
<1>4. CacheDiscard' /\ CacheFiles' /\ CacheCall'
  BY <1>1, <1>3 DEF CacheDiscard, CacheFiles, CacheCall, CacheInv, Ahead, Starting
<1>5. Quarantining(<<>>)
  BY EmptyFacts DEF Quarantining
<1>6. MetaInv'
  BY <1>1, <1>2, <1>5 DEF MetaInv, ReadsOK, CacheInv
<1> QED
  BY <1>4, <1>6 DEF CacheInv

\* lease_reference leaves a retained lease in quarantine, or puts it there again.
LEMMA SyncQuarantining ==
  ASSUME NEW l \in Lease, l.state \in {"Restore", "Active"}
  PROVE  Quarantining(SyncPendingNamespaces(l))
<1>1. PICK a \in Seq(Step) : a = SyncPendingNamespaces(l)
  BY SyncPendingFacts
<1>2. CASE ~l.pending
  <2>1. Len(a) = 0
    BY <1>1, <1>2, SyncPendingFacts
  <2> QED
    BY <1>1, <2>1 DEF Quarantining
<1>3. CASE l.pending
  <2>1. Len(a) = 2 /\ a[1] = Sync(Reference, l) /\ a[2] = Sync(Quarantine(l.nonce, "Restore"), Synced(l))
    BY <1>1, <1>3, SyncPendingFacts
  <2>2. a[1].lease.state = l.state /\ a[2].lease.state = l.state
    BY <2>1 DEF Sync, Do, Synced, Lease
  <2> QED
    BY <1>1, <2>1, <2>2 DEF Quarantining
<1> QED
  BY <1>2, <1>3 DEF Lease

LEMMA JoinQuarantining ==
  ASSUME NEW a \in Seq(Step), NEW b \in Seq(Step), Quarantining(a), Quarantining(b)
  PROVE  Quarantining(a \o b)
<1>1. PICK c \in Seq(Step) : /\ c = a \o b /\ Len(c) = Len(a) + Len(b)
                             /\ \A i \in 1 .. Len(a) : c[i] = a[i]
                             /\ \A i \in 1 .. Len(b) : c[Len(a) + i] = b[i]
  BY JoinFacts
<1>2. Len(a) \in Nat /\ Len(b) \in Nat
  BY LenProperties
<1>3. ASSUME NEW i \in 1 .. Len(c)
      PROVE  c[i].op = "refuse" \/ c[i].lease.state \in {"Restore", "Active"}
  <2>1. CASE i \in 1 .. Len(a)
    BY <1>1, <2>1 DEF Quarantining
  <2>2. CASE i \notin 1 .. Len(a)
    <3>1. PICK j \in 1 .. Len(b) : i = Len(a) + j
      <4>1. i - Len(a) \in 1 .. Len(b) /\ i = Len(a) + (i - Len(a))
        BY <1>1, <1>2, <2>2
      <4> QED
        BY <4>1
    <3> QED
      BY <1>1, <3>1 DEF Quarantining
  <2> QED
    BY <2>1, <2>2
<1> QED
  BY <1>1, <1>3 DEF Quarantining

LEMMA RefuseQuarantining == Quarantining(Refuse)
<1>1. Len(Refuse) = 1 /\ Refuse[1].op = "refuse"
  BY RefuseFacts
<1> QED
  BY <1>1 DEF Quarantining

LEMMA RequarantineQuarantining ==
  ASSUME NEW l \in Lease, l.state = "Active"
  PROVE  Quarantining(Requarantine(l))
<1>1. PICK p \in Paths : p = Quarantine(l.nonce, "Restore")
  BY PathFacts DEF Lease, Intent
<1>2. PICK m \in Lease : m = Moved(l, "Restore") /\ m.state = "Restore"
  BY MovedFacts DEF LeaseState
<1>3. PICK step \in Step : step = Move(Reference, p, m) /\ step.lease = m
  BY StepFacts, PathFacts
<1>4. PICK a, b, c : a = SyncPendingNamespaces(l) /\ b = <<step>> /\ c = SyncPendingNamespaces(m)
  OBVIOUS
<1>5. a \in Seq(Step) /\ Quarantining(a) /\ c \in Seq(Step) /\ Quarantining(c)
  BY <1>2, <1>4, SyncQuarantining, SyncPendingFacts
<1>6. b \in Seq(Step) /\ Len(b) = 1 /\ b[1] = step
  BY <1>4, OneFacts
<1>7. Quarantining(b)
  BY <1>2, <1>3, <1>6 DEF Quarantining
<1>8. a \o b \in Seq(Step) /\ Quarantining(a \o b)
  BY <1>5, <1>6, <1>7, JoinQuarantining, JoinFacts
<1>9. Quarantining((a \o b) \o c)
  BY <1>5, <1>8, JoinQuarantining
<1>10. Requarantine(l) = (a \o b) \o c
  BY <1>1, <1>2, <1>3, <1>4 DEF Requarantine
<1> QED
  BY <1>9, <1>10

-----------------------------------------------------------------------------
(* Control steps and the cache *)

\* Only lease_reference leads to the two places of which ReadsOK speaks.
Direct(c) == c.pc \notin {"metadata", "resolved"}

LEMMA DirectFacts ==
  ASSUME SessionInv, NEW c, NEW pc, NEW l,
         \/ c = Idle
         \/ pc \notin {"metadata", "resolved"} /\ \E io : c = Call(pc, l, io)
         \/ pc \notin {"metadata", "resolved"} /\ \E top, then, s : c = Begin(pc, top, then, s, l)
         \/ pc \notin {"metadata", "resolved"} /\ \E then, s : c = Proceed(pc, then, s, l)
         \/ \E then : c = [DiscardLeased(l) EXCEPT !.then = then]
  PROVE  Direct(c)
<1>1. CASE c = Idle
  BY <1>1, IdleFacts DEF Direct
<1>2. CASE pc \notin {"metadata", "resolved"} /\ \E io : c = Call(pc, l, io)
  BY <1>2, CallPc DEF Direct
<1>3. CASE pc \notin {"metadata", "resolved"} /\ ((\E top, then, s : c = Begin(pc, top, then, s, l)) \/ \E then, s : c = Proceed(pc, then, s, l))
  BY <1>3 DEF Direct, Begin, Proceed, Enter
<1>4. CASE \E then : c = [DiscardLeased(l) EXCEPT !.then = then]
  <2>1. c.pc = "discarded"
    BY <1>4, Now DEF DiscardLeased, Call, CallType
  <2> QED
    BY <2>1 DEF Direct
<1> QED
  BY <1>1, <1>2, <1>3, <1>4

LEMMA InsertEndsDirect ==
  ASSUME NEW ok, InsertEnds(ok)
  PROVE  Direct(proc')
<1>1. PICK c : c = proc'
  OBVIOUS
<1>2. c = Idle \/ c = [Begin("respond", "finish", "none", proc.s, NoLease) EXCEPT !.ok = ok]
  BY <1>1 DEF InsertEnds
<1>3. c.pc \in {"idle", "respond"}
  BY <1>2, IdleFacts DEF Begin, Enter
<1> QED
  BY <1>1, <1>3 DEF Direct

LEMMA FitDirect ==
  ASSUME SessionInv, Fit
  PROVE  Direct(proc')
<1>1. PICK c : c = proc'
  OBVIOUS
<1>2. CASE DiscardOldestHibernated
  <2>1. PICK v : v = Oldest(InState("hibernated"))
    OBVIOUS
  <2>2. \/ c = Proceed("discard", "fitDiscarded", v, mem[v].lease)
        \/ c = [Proceed("evicted", "none", v, mem[v].lease) EXCEPT !.io = Restore(v, mem[v].lease)]
    BY <1>1, <1>2, <2>1 DEF DiscardOldestHibernated
  <2>3. c.pc \in {"discard", "evicted"}
    BY <2>2 DEF Proceed, Enter
  <2> QED
    BY <1>1, <2>3 DEF Direct
<1>3. PICK v : v = Oldest(InState("resident"))
  OBVIOUS
<1>4. \/ \E ok \in BOOLEAN : InsertEnds(ok)
      \/ DiscardOldestHibernated
      \/ c = Proceed("discard", "fitDiscarded", v, mem[v].lease)
      \/ c = Proceed("hibernating", "none", v, mem[v].lease)
      \/ c = Proceed("lease", "hibernating", v, NoLease)
  BY <1>1, <1>3 DEF Fit
<1> QED
  BY <1>1, <1>2, <1>4, InsertEndsDirect, DirectFacts

LEMMA ServerStepDirect ==
  ASSUME SessionInv, ServerStep
  PROVE  Direct(proc')
<1>1. PICK c : c = proc'
  OBVIOUS
<1>2. CASE ContinueCold \/ AttachResidentSession \/ FinishWakeError \/ ReferenceRestored
  <2>1. c = Idle
    BY <1>1, <1>2 DEF ContinueCold, AttachResidentSession, FinishWakeError, ReferenceRestored
  <2> QED
    BY <1>1, <2>1, DirectFacts
<1>3. CASE WakeHibernatedSession \/ RestorePersisted
  <2>1. \/ c = Idle
        \/ \E pc \in {"woken", "wakeFailed", "unloaded"} : \E l, io : c = Call(pc, l, io)
        \/ \E l : c = [DiscardLeased(l) EXCEPT !.then = "ended"]
    BY <1>1, <1>3 DEF WakeHibernatedSession, RestorePersisted
  <2> QED
    BY <1>1, <2>1, DirectFacts
<1>4. CASE FinishWake \/ PersistedMetadata \/ TaskDiscarded \/ Respond
  <2>1. c = Idle \/ \E pc \in {"lease", "fit", "discard"} : \E top, then, s, l : c = Begin(pc, top, then, s, l)
    BY <1>1, <1>4 DEF FinishWake, PersistedMetadata, TaskDiscarded, Respond
  <2> QED
    BY <1>1, <2>1, DirectFacts
<1>5. CASE Persisted
  <2>1. \/ \E l, io : c = Call("retired", l, io)
        \/ \E l, io : c = [Call("retained", l, io) EXCEPT !.top = "retain"]
    BY <1>1, <1>5 DEF Persisted
  <2>2. (\E l, io : c = [Call("retained", l, io) EXCEPT !.top = "retain"]) => c.pc = "retained"
    BY Now DEF Call, CallType
  <2>3. (\E l, io : c = Call("retired", l, io)) => c.pc = "retired"
    BY CallPc
  <2> QED
    BY <1>1, <2>1, <2>2, <2>3 DEF Direct
<1>6. CASE Retired \/ RetainedSession
  <2>1. c = Idle \/ c = Proceed("fit", "none", proc.s, NoLease)
    BY <1>1, <1>6 DEF Retired, RetainedSession
  <2> QED
    BY <1>1, <2>1, DirectFacts
<1>7. CASE FitContinues \/ StoreHibernated \/ RestoreFailedHibernation
  <2>1. InsertEnds(FALSE) \/ c = Proceed("fit", "none", proc.s, NoLease)
    BY <1>1, <1>7 DEF FitContinues, StoreHibernated, RestoreFailedHibernation
  <2> QED
    BY <1>1, <2>1, InsertEndsDirect, DirectFacts
<1>8. CASE HibernateStored
  <2>1. \/ InsertEnds(FALSE)
        \/ \E pc \in {"captured", "uncaptured"} : \E l, io : c = Call(pc, l, io)
        \/ \E l : c = [DiscardLeased(l) EXCEPT !.then = "lost"]
    BY <1>1, <1>8 DEF HibernateStored
  <2> QED
    BY <1>1, <2>1, InsertEndsDirect, DirectFacts
<1> QED
  BY <1>2, <1>3, <1>4, <1>5, <1>6, <1>7, <1>8, FitDirect DEF ServerStep

LEMMA RequestDirect ==
  ASSUME SessionInv, NEW s \in Sessions,
         \/ LeaseContinueSession(s) \/ PersistChatSession(s) \/ RetainFailedSession(s)
         \/ \E why \in {"cancelled", "ended"} : DiscardStoredSession(s, why)
  PROVE  Direct(proc')
<1>1. PICK c : c = proc'
  OBVIOUS
<1>2. CASE LeaseContinueSession(s)
  <2>1. PICK l : l = mem[s].lease
    OBVIOUS
  <2>2. mem[s].at \in {"absent", "resident", "hibernated"}
    BY <1>2, Now DEF Held, LeaseContinueSession
  <2>3. DiscardPending(l) => mem[s].at # "absent"
    BY <2>1, Now, LeaseFacts DEF SessionOK
  <2>4. \E pc \in {"discard", "lease", "attach", "wake"} : \E top, then, k : c = Begin(pc, top, then, s, k)
    BY <1>1, <1>2, <2>1, <2>2, <2>3 DEF LeaseContinueSession
  <2> QED
    BY <1>1, <2>4, DirectFacts
<1>3. CASE PersistChatSession(s)
  BY <1>3 DEF PersistChatSession, Begin, Enter, Direct
<1>4. CASE RetainFailedSession(s)
  BY <1>4 DEF RetainFailedSession, Begin, Enter, Direct
<1>5. CASE \E why \in {"cancelled", "ended"} : DiscardStoredSession(s, why)
  BY <1>5 DEF DiscardStoredSession, Begin, Enter, Direct
<1> QED
  BY <1>2, <1>3, <1>4, <1>5

LEMMA DirectReads ==
  ASSUME NEW c, Direct(c)
  PROVE  ReadsOK(c)
BY DEF Direct, ReadsOK

LEMMA ReturnReads ==
  ASSUME SessionInv, proc.pc \in LeasePcs \cup DiscardPcs, NEW c, NEW ok, NEW l, c = Return(ok, l),
         l.state = "Restore" => ~Exists(disk, proc.v, Reference)
  PROVE  ReadsOK(c)
<1>1. c.pc = proc.then /\ c.v = proc.v /\ c.lease = l
  BY Now DEF Return, CallType
<1>2. proc.then # "resolved"
  BY Now DEF CallOK
<1> QED
  BY <1>1, <1>2 DEF ReadsOK

LEMMA CheckActiveReads ==
  ASSUME SessionInv, proc.pc \in LeasePcs, NEW c, c = CheckActive
  PROVE  ReadsOK(c)
<1>1. CASE c = Return(TRUE, NoLease)
  BY <1>1, ReturnReads, LeaseFacts
<1>2. CASE c = Call("leaseActive", NoLease, <<>>)
  BY <1>2, DirectFacts, DirectReads
<1> QED
  BY <1>1, <1>2 DEF CheckActive

LEMMA ResolvedReads ==
  ASSUME SessionInv, NEW c, NEW l \in Lease, NEW io, c = Call("resolved", l, io),
         l.state \in {"Restore", "Active"}, Quarantining(io),
         l.state = "Restore" => ~Exists(disk, proc.v, Reference) \/ io = Refuse
  PROVE  ReadsOK(c)
<1>1. c.pc = "resolved" /\ c.lease = l /\ c.io = io /\ c.v = proc.v
  BY CallScripted
<1> QED
  BY <1>1 DEF ReadsOK

LEMMA TakeRecoveryLeaseReads ==
  ASSUME SessionInv, TakeRecoveryLease
  PROVE  ReadsOK(proc')
<1>1. PICK c : c = proc'
  OBVIOUS
<1>2. PICK v \in Sessions : v = proc.v
  BY Now
<1>3. PICK l \in Lease : l = table[v] /\ Waiting(l)
  BY <1>2, Now DEF RetainedOK
<1>4. c = ResolveRecoveryLease(v, l) /\ proc.pc \in LeasePcs
  BY <1>1, <1>2, <1>3 DEF TakeRecoveryLease, Reached
<1>5. CASE l = NoLease
  <2>1. c = CheckActive
    BY <1>4, <1>5, LeaseFacts DEF ResolveRecoveryLease, ActiveConflicts, ActiveSupersedes
  <2> QED
    BY <1>1, <1>4, <2>1, CheckActiveReads
<1>6. CASE LiveLease(l) /\ DiscardPending(l)
  <2>1. PICK m : m = [l EXCEPT !.discard = TRUE]
    OBVIOUS
  <2>2. c = Call("resolvedDiscard", m, Discard(m))
    BY <1>4, <1>6, <2>1 DEF ResolveRecoveryLease, LiveLease
  <2> QED
    BY <1>1, <2>2, DirectFacts, DirectReads
<1>7. CASE LiveLease(l) /\ ~DiscardPending(l)
  <2>1. l.state \in {"Restore", "Superseded", "Active"}
    BY <1>7 DEF LiveLease, DiscardPending, Lease, LeaseState
  <2>2. CASE l.state = "Restore" /\ ActiveConflicts(v, l)
    <3>1. c = Call("resolved", l, Refuse)
      BY <1>4, <1>7, <2>2 DEF ResolveRecoveryLease, ActiveConflicts
    <3> QED
      BY <1>1, <2>2, <3>1, RefuseQuarantining, ResolvedReads
  <2>3. CASE l.state = "Superseded" \/ (ActiveSupersedes(v, l) /\ ~ActiveConflicts(v, l))
    <3>1. c = Call("resolvedRetire", l, Retire(l))
      BY <1>4, <1>7, <2>3 DEF ResolveRecoveryLease, ActiveConflicts, ActiveSupersedes
    <3> QED
      BY <1>1, <3>1, DirectFacts, DirectReads
  <2>4. CASE l.state = "Restore" /\ ~ActiveSupersedes(v, l)
    <3>1. c = Call("resolved", l, SyncPendingNamespaces(l))
      BY <1>4, <1>7, <2>4 DEF ResolveRecoveryLease, ActiveConflicts
    <3>2. ~Exists(disk, proc.v, Reference)
      BY <1>2, <2>4 DEF ActiveSupersedes
    <3>3. Quarantining(SyncPendingNamespaces(l))
      BY <2>4, SyncQuarantining
    <3> QED
      BY <1>1, <2>4, <3>1, <3>2, <3>3, ResolvedReads
  <2>5. CASE l.state = "Active"
    <3>1. c = Call("resolved", l, Requarantine(l))
      BY <1>4, <1>7, <2>5 DEF ResolveRecoveryLease, ActiveConflicts, ActiveSupersedes
    <3> QED
      BY <1>1, <2>5, <3>1, RequarantineQuarantining, ResolvedReads
  <2> QED
    BY <2>1, <2>2, <2>3, <2>4, <2>5
<1> QED
  BY <1>3, <1>5, <1>6, <1>7 DEF Waiting

LEMMA LeasingReads ==
  ASSUME SessionInv, MetaInv, Resolved \/ LeaseActive \/ Leasing \/ Unleasing
  PROVE  ReadsOK(proc')
<1>1. PICK c : c = proc'
  OBVIOUS
<1>2. proc.pc \in LeasePcs
  BY DEF Resolved, LeaseActive, Leasing, Unleasing, Reached
<1>3. ASSUME \E ok : c = Return(ok, NoLease)
      PROVE  ReadsOK(c)
  BY <1>2, <1>3, ReturnReads, LeaseFacts
<1>4. CASE Resolved
  <2>1. CASE Reached("resolved") /\ proc.ok /\ c = Return(TRUE, proc.lease)
    <3>1. proc.io # Refuse
      <4>1. Len(Refuse) = 1 /\ proc.io = <<>> /\ Len(<<>>) = 0
        BY <2>1, RefuseFacts, EmptyFacts DEF Reached
      <4> QED
        BY <4>1
    <3>2. proc.lease.state = "Restore" => ~Exists(disk, proc.v, Reference)
      BY <2>1, <3>1 DEF MetaInv, ReadsOK, Reached
    <3> QED
      BY <1>1, <1>2, <2>1, <3>2, ReturnReads
  <2>2. CASE c = CheckActive
    BY <1>1, <1>2, <2>2, CheckActiveReads
  <2> QED
    BY <1>1, <1>3, <1>4, <2>1, <2>2 DEF Resolved
<1>5. CASE LeaseActive
  <2>1. CASE c = Call("leasing", NoLease, LeaseReference(proc.v))
    BY <1>1, <2>1, DirectFacts, DirectReads
  <2> QED
    BY <1>1, <1>3, <1>5, <2>1 DEF LeaseActive
<1>6. CASE Leasing
  <2>1. CASE c = Call("unleasing", proc.lease, Restore(proc.v, proc.lease))
    BY <1>1, <2>1, DirectFacts, DirectReads
  <2>2. CASE c = Return(proc.ok, proc.lease)
    <3>1. proc.lease.state = "Restore" => ~Exists(disk, proc.v, Reference)
      BY <1>6 DEF Leasing, Reached, SessionInv, ControlInv, LeasingOK, LiveLease
    <3> QED
      BY <1>1, <1>2, <2>2, <3>1, ReturnReads
  <2> QED
    BY <1>1, <1>6, <2>1, <2>2 DEF Leasing
<1>7. CASE Unleasing
  BY <1>1, <1>3, <1>7 DEF Unleasing
<1> QED
  BY <1>4, <1>5, <1>6, <1>7

LEMMA DiscardReads ==
  ASSUME SessionInv, DiscardSession \/ Discarded
  PROVE  ReadsOK(proc')
<1>1. PICK c : c = proc'
  OBVIOUS
<1>2. proc.pc \in DiscardPcs
  BY DEF DiscardSession, Discarded, Reached
<1>3. \/ \E ok : c = Return(ok, NoLease)
      \/ \E l : c = DiscardLeased(l)
      \/ c = [proc EXCEPT !.pc = "panic"]
  BY <1>1 DEF DiscardSession, Discarded
<1>4. CASE \E ok : c = Return(ok, NoLease)
  BY <1>1, <1>2, <1>4, ReturnReads, LeaseFacts
<1>5. CASE \E l : c = DiscardLeased(l)
  <2>1. \E l, io : c = Call("discarded", l, io)
    BY <1>5 DEF DiscardLeased
  <2> QED
    BY <1>1, <2>1, DirectFacts, DirectReads
<1>6. CASE c = [proc EXCEPT !.pc = "panic"]
  <2>1. c.pc = "panic"
    BY <1>6, Now DEF CallType
  <2> QED
    BY <1>1, <2>1, DirectReads DEF Direct
<1> QED
  BY <1>3, <1>4, <1>5, <1>6

LEMMA StoreControlReads ==
  ASSUME SessionInv, MetaInv, StoreControl
  PROVE  ReadsOK(proc')
BY TakeRecoveryLeaseReads, LeasingReads, DiscardReads DEF StoreControl

\* What a step without an operation does to the cache: it drops an entry, keeps one that is
\* not behind, or reads one.
Caches ==
  \A s \in Sessions :
    \/ persisted'[s] = 0
    \/ persisted'[s] = persisted[s] /\ ~Ahead(proc, s)
    \/ Persisted /\ proc.ok /\ s = proc.s /\ persisted'[s] = mem[s].last_used
    \/ /\ PersistedMetadata /\ proc.ok /\ s = proc.s /\ persisted'[s] # 0
       /\ persisted'[s] = LastUsed(disk, s, IF proc.lease = NoLease THEN Reference
                                            ELSE Quarantine(proc.lease.nonce, "Restore"))

LEMMA CachedEntries ==
  ASSUME NEW s \in Sessions, NEW used, NEW p, p = Cached(s, used)
  PROVE  p[s] = used /\ \A r \in Sessions \ {s} : p[r] \in {0, persisted[r]}
<1>1. PICK others : others = {r \in Sessions \ {s} : persisted[r] # 0}
  OBVIOUS
<1>2. PICK drop : drop = IF persisted[s] = 0 /\ Cardinality(others) = RecoveryLimit
                         THEN {CHOOSE r \in others : \A q \in others : persisted[r] <= persisted[q]}
                         ELSE {}
  OBVIOUS
<1>3. p = [r \in Sessions |-> IF r = s THEN used ELSE IF r \in drop THEN 0 ELSE persisted[r]]
  BY <1>1, <1>2 DEF Cached
<1> QED
  BY <1>3

LEMMA ControlCaches ==
  ASSUME SessionInv, TableInv', ServerStep \/ StoreControl \/ Request
  PROVE  Caches
<1>1. persisted \in [Sessions -> Nat] /\ proc.s \in Sessions /\ proc.v \in Sessions
  BY Now DEF TypeInv
<1>0. PICK p : p = persisted'
  OBVIOUS
<1>2. CASE persisted' = persisted /\ proc.pc \notin {"persisted", "discarded"}
  BY <1>2 DEF Caches, Ahead
<1>3. CASE \E x \in Sessions : persisted' = [persisted EXCEPT ![x] = 0] /\ (x = proc.v \/ proc.pc = "idle")
  BY <1>1, <1>3 DEF Caches, Ahead
<1>4. CASE Persisted
  <2>1. proc.pc = "persisted" /\ proc.s = proc.v
    BY <1>4, Now DEF Persisted, Reached, CallOK, Fitting
  <2>2. CASE proc.ok
    <3>1. persisted' = Cached(proc.s, mem[proc.s].last_used)
      BY <1>4, <2>2 DEF Persisted
    <3>2. /\ persisted'[proc.s] = mem[proc.s].last_used
          /\ \A r \in Sessions \ {proc.s} : persisted'[r] \in {0, persisted[r]}
      BY <1>0, <1>1, <3>1, CachedEntries
    <3> QED
      BY <1>4, <2>1, <2>2, <3>2 DEF Caches, Ahead
  <2>3. CASE ~proc.ok
    <3>1. persisted' = [persisted EXCEPT ![proc.s] = 0]
      BY <1>4, <2>3 DEF Persisted
    <3> QED
      BY <1>1, <1>3, <2>1, <3>1
  <2> QED
    BY <2>2, <2>3
<1>5. CASE PersistedMetadata
  <2>1. proc.pc = "metadata"
    BY <1>5 DEF PersistedMetadata, Reached
  <2>2. PICK path : path = IF proc.lease = NoLease THEN Reference ELSE Quarantine(proc.lease.nonce, "Restore")
    OBVIOUS
  <2>3. PICK used : used = LastUsed(disk, proc.s, path)
    OBVIOUS
  <2>4. \/ persisted' = persisted
        \/ proc.ok /\ used # 0 /\ persisted' = Cached(proc.s, used)
    BY <1>5, <2>2, <2>3 DEF PersistedMetadata
  <2>5. CASE proc.ok /\ used # 0 /\ persisted' = Cached(proc.s, used)
    <3>1. persisted'[proc.s] = used /\ \A r \in Sessions \ {proc.s} : persisted'[r] \in {0, persisted[r]}
      BY <1>0, <1>1, <2>5, CachedEntries
    <3> QED
      BY <1>5, <2>1, <2>2, <2>3, <2>5, <3>1 DEF Caches, Ahead
  <2> QED
    BY <1>2, <2>1, <2>4, <2>5
<1>6. CASE Discarded
  <2>1. proc.pc = "discarded"
    BY <1>6 DEF Discarded, Reached
  <2>2. proc' # [proc EXCEPT !.pc = "panic"]
    <3>1. PICK c : c = [proc EXCEPT !.pc = "panic"]
      OBVIOUS
    <3>2. c.pc = "panic"
      BY <3>1, Now DEF CallType
    <3>3. proc'.pc # "panic"
      BY DEF TableInv, TableOK
    <3> QED
      BY <3>1, <3>2, <3>3
  <2>3. persisted' = [persisted EXCEPT ![proc.v] = 0]
    BY <1>6, <2>2 DEF Discarded, RemoveSessionState
  <2> QED
    BY <1>1, <1>3, <2>3
<1>7. CASE WakeHibernatedSession \/ HibernateStored
  <2>1. proc.pc \in {"wake", "hibernating"}
    BY <1>7 DEF WakeHibernatedSession, HibernateStored, Reached
  <2>2. persisted' = persisted \/ \E x \in Sessions : persisted' = [persisted EXCEPT ![x] = 0]
    BY <1>1, <1>7 DEF WakeHibernatedSession, HibernateStored, RemoveSessionState
  <2> QED
    BY <1>1, <1>2, <2>1, <2>2 DEF Caches, Ahead
<1>8. CASE DiscardSession
  <2>1. proc.pc = "discard"
    BY <1>8 DEF DiscardSession, Reached
  <2>2. persisted' = persisted \/ persisted' = [persisted EXCEPT ![proc.v] = 0]
    BY <1>8 DEF DiscardSession, RemoveSessionState
  <2> QED
    BY <1>1, <1>2, <1>3, <2>1, <2>2
<1>9. CASE Request
  <2>1. proc.pc = "idle"
    BY <1>9 DEF Request, LeaseContinueSession, LeaseForkSession, PersistChatSession, RetainFailedSession,
                DiscardStoredSession
  <2>2. persisted' = persisted \/ \E x \in Sessions : persisted' = [persisted EXCEPT ![x] = 0]
    BY <1>9 DEF Request, LeaseContinueSession, LeaseForkSession, PersistChatSession, RetainFailedSession,
                DiscardStoredSession
  <2> QED
    BY <1>2, <1>3, <2>1, <2>2
<1>10. CASE TakeRecoveryLease \/ Resolved \/ LeaseActive \/ Leasing \/ Unleasing
  <2>1. persisted' = persisted /\ proc.pc \notin {"persisted", "discarded"}
    BY <1>10 DEF TakeRecoveryLease, Resolved, LeaseActive, Leasing, Unleasing, Reached
  <2> QED
    BY <1>2, <2>1
<1>11. CASE \/ ContinueCold \/ AttachResidentSession \/ FinishWake \/ FinishWakeError
            \/ RestorePersisted \/ ReferenceRestored \/ Retired \/ RetainedSession \/ TaskDiscarded \/ Respond
            \/ Fit \/ FitContinues \/ StoreHibernated \/ RestoreFailedHibernation
  <2>1. persisted' = persisted /\ proc.pc \notin {"persisted", "discarded"}
    BY <1>11 DEF ContinueCold, AttachResidentSession, FinishWake, FinishWakeError, RestorePersisted,
                 ReferenceRestored, Retired, RetainedSession, TaskDiscarded, Respond,
                 Fit, FitContinues, StoreHibernated, RestoreFailedHibernation, Reached
  <2> QED
    BY <1>2, <2>1
<1> QED
  BY <1>4, <1>5, <1>6, <1>7, <1>8, <1>9, <1>10, <1>11 DEF ServerStep, StoreControl

\* The reference that persisted_metadata reads is the one that a start would load.
LEMMA MetadataHolds ==
  ASSUME SessionInv, OneInv, FilesInv, DiskInv, MetaInv, PersistedMetadata, proc.ok, NEW path,
         path = IF proc.lease = NoLease THEN Reference ELSE Quarantine(proc.lease.nonce, "Restore"),
         LastUsed(disk, proc.s, path) # 0
  PROVE  /\ LastUsed(disk, proc.s, path) = Recovered(disk, proc.s)
         /\ ~AnyDiscard(mem[proc.s].lease, table[proc.s], InHand(proc, proc.s))
<1>1. proc.pc = "metadata"
  BY DEF PersistedMetadata, Reached
<1>2. PICK s \in Sessions : s = proc.s /\ s = proc.v
  BY <1>1, Now DEF CallOK, Fitting
<1>3. proc.top = "continue"
  BY <1>1, Now DEF CallOK, OneInv
<1>4. mem[s].lease = NoLease /\ table[s] = NoLease
  <2>1. mem[s].at = "absent"
    BY <1>1, <1>2, <1>3, Now DEF WhereOK
  <2>2. table[s] = NoLease
    BY <1>1, <1>2, Now DEF HandOK
  <2> QED
    BY <2>1, <2>2, Now DEF SessionOK
<1>5. PICK l \in Lease : l = proc.lease /\ Waiting(l) /\ l.state \in {"None", "Restore"} /\ ~DiscardPending(l)
  <2>1. proc.lease \in Lease /\ Waiting(proc.lease) /\ proc.lease.state \in {"None", "Restore"}
    BY <1>1, Now DEF HandOK
  <2>2. ~DiscardPending(proc.lease)
    BY <1>1, <2>1, Now, LeaseFacts DEF HandOK, Waiting
  <2> QED
    BY <2>1, <2>2
<1>6. InHand(proc, s) = l
  BY <1>2, <1>5 DEF InHand
<1>7. ~AnyDiscard(mem[s].lease, table[s], InHand(proc, s))
  BY <1>4, <1>5, <1>6, LeaseFacts DEF AnyDiscard
<1>8. disk \in durable /\ disk \in Namespace /\ FilesOK(disk, s) /\ ~Starting
  BY <1>1, Now, DiskFacts DEF TypeInv, FilesInv, FileInv, Starting
<1>9. ~Marked(disk, s)
  <2>1. Unmarked(mem[s].lease, table[s], InHand(proc, s))
    BY <1>4, <1>5, <1>6, LeaseFacts DEF Unmarked
  <2> QED
    BY <1>8, <2>1 DEF DiskInv, NoneInv
<1>10. Exists(disk, s, path)
  BY <1>2 DEF LastUsed
<1>11. LastUsed(disk, s, path) = Recovered(disk, s)
  <2>1. CASE l = NoLease
    <3>1. path = Reference
      BY <1>5, <2>1
    <3> QED
      BY <1>9, <1>10, <3>1 DEF Recovered
  <2>2. CASE l # NoLease
    <3>1. path = Quarantine(l.nonce, "Restore") /\ l.state = "Restore"
      BY <1>5, <2>2 DEF Waiting, LiveLease
    <3>2. ~Exists(disk, s, Reference)
      BY <1>1, <1>2, <1>5, <3>1 DEF MetaInv, ReadsOK
    <3>3. PICK g : g \in At(disk, s, path)
      BY <1>10 DEF Exists
    <3>4. g \in Of(disk, s) /\ g.intent = path.intent /\ LastUsed(disk, s, path) = g.last_used
      BY <1>8, <3>3, AtFacts
    <3>5. g.intent = "Restore"
      BY <3>1, <3>4 DEF Quarantine
    <3>6. \A f \in Of(disk, s) : f.intent # "Active"
      BY <1>8, <3>2, ActiveFacts
    <3>7. Latest(disk, s, g)
      BY <3>4, <3>5, <3>6 DEF Latest
    <3> QED
      BY <1>8, <1>9, <3>4, <3>7, RecoveredFacts
  <2> QED
    BY <2>1, <2>2
<1> QED
  BY <1>2, <1>7, <1>11

\* A persist that has succeeded is what a start loads.
LEMMA PersistedReads ==
  ASSUME SessionInv, FilesInv, TableInv, DiskInv, CacheInv, Persisted, proc.ok
  PROVE  /\ mem[proc.s].last_used = Recovered(disk, proc.s)
         /\ ~AnyDiscard(mem[proc.s].lease, table[proc.s], InHand(proc, proc.s))
<1>1. proc.pc = "persisted" /\ proc.io = <<>> /\ Len(<<>>) = 0
  BY EmptyFacts DEF Persisted, Reached
<1>2. PICK s \in Sessions : s = proc.s /\ s = proc.v
  BY <1>1, Now DEF CallOK, Fitting
<1>3. clock # 0 /\ LastUsed(disk, s, Reference) = clock
  BY <1>1, <1>2 DEF FilesInv, PersistInv, PersistOK
<1>4. ~Marked(disk, s)
  BY <1>1, <1>2, PersistUnmarked, Now DEF TypeInv
<1>5. Exists(disk, s, Reference)
  BY <1>3 DEF LastUsed
<1>6. Recovered(disk, s) = clock
  BY <1>3, <1>4, <1>5 DEF Recovered
<1>7. mem[s].last_used = clock
  BY <1>1, <1>2 DEF CacheInv, CacheCall
<1> QED
  BY <1>1, <1>2, <1>6, <1>7, PersistUnmarked

\* A step that runs no operation.
LEMMA ControlCache ==
  ASSUME SessionInv, OneInv, FilesInv, TableInv, TableInv', DiskInv, CacheInv, LeaseFlow, Caches
  PROVE  CacheDiscard' /\ CacheFiles'
<1>1. disk' = disk
  BY DEF LeaseFlow
<1>2. ASSUME NEW s \in Sessions, Persisted, proc.ok, s = proc.s, persisted'[s] = mem[s].last_used
      PROVE  persisted'[s] = Recovered(disk, s) /\ ~AnyDiscard(mem[s].lease, table[s], InHand(proc, s))
  BY <1>2, PersistedReads
<1>3. ASSUME NEW s \in Sessions, PersistedMetadata, proc.ok, s = proc.s, persisted'[s] # 0,
             persisted'[s] = LastUsed(disk, s, IF proc.lease = NoLease THEN Reference
                                               ELSE Quarantine(proc.lease.nonce, "Restore"))
      PROVE  persisted'[s] = Recovered(disk, s) /\ ~AnyDiscard(mem[s].lease, table[s], InHand(proc, s))
  <2>1. PICK path : path = IF proc.lease = NoLease THEN Reference ELSE Quarantine(proc.lease.nonce, "Restore")
    OBVIOUS
  <2>2. persisted'[s] = LastUsed(disk, s, path)
    BY <1>3, <2>1
  <2>3. /\ LastUsed(disk, s, path) = Recovered(disk, s)
        /\ ~AnyDiscard(mem[s].lease, table[s], InHand(proc, s))
    BY <1>3, <2>1, <2>2, MetadataHolds DEF CacheInv
  <2> QED
    BY <2>2, <2>3
<1>4. ASSUME NEW s \in Sessions
      PROVE  \/ persisted'[s] = 0
             \/ persisted'[s] = persisted[s] /\ ~Ahead(proc, s)
             \/ persisted'[s] = Recovered(disk, s) /\ ~AnyDiscard(mem[s].lease, table[s], InHand(proc, s))
  BY <1>2, <1>3, <1>4 DEF Caches
<1>5. CacheFiles'
  <2> SUFFICES ASSUME NEW s \in Sessions, persisted'[s] # 0
               PROVE  persisted'[s] = Recovered(disk, s)
    BY <1>1 DEF CacheFiles
  <2>1. CASE persisted'[s] = persisted[s] /\ ~Ahead(proc, s)
    BY <2>1 DEF CacheInv, CacheFiles
  <2> QED
    BY <1>4, <2>1
<1>6. CacheDiscard'
  <2> SUFFICES ASSUME NEW s \in Sessions, AnyDiscard(mem'[s].lease, table'[s], InHand(proc', s)),
                      ~(proc'.pc = "discarded" /\ proc'.v = s)
               PROVE  persisted'[s] = 0
    BY DEF CacheDiscard
  <2>1. AnyDiscard(mem[s].lease, table[s], InHand(proc, s))
    BY FlowDiscards
  <2>2. persisted[s] = 0 \/ Ahead(proc, s)
    BY <2>1 DEF CacheInv, CacheDiscard, Ahead
  <2> QED
    BY <1>4, <2>1, <2>2
<1> QED
  BY <1>5, <1>6

\* A step whose call neither persists nor starts.
LEMMA ScriptedCache ==
  ASSUME SessionInv, OneInv, FilesInv, TableInv, TableInv', DiskInv, CacheInv, LeaseFlow, Caches,
         Scripted(proc'), ReadsOK(proc')
  PROVE  CacheInv'
<1>1. proc'.pc \notin StartPcs \cup {"persisted"}
  BY DEF Scripted
<1>2. CacheCall'
  BY <1>1 DEF CacheCall, Starting
<1>3. MetaInv'
  <2>1. disk' = disk
    BY DEF LeaseFlow
  <2> QED
    BY <2>1 DEF MetaInv, ReadsOK
<1> QED
  BY <1>2, <1>3, ControlCache DEF CacheInv

LEMMA PersistChatSessionCache ==
  ASSUME SessionInv, OneInv, FilesInv, TableInv, TableInv', DiskInv, CacheInv, LeaseFlow, Caches,
         NEW s \in Sessions, PersistChatSession(s)
  PROVE  CacheInv'
<1>1. /\ proc'.pc = "persisted" /\ proc'.v = s /\ clock' = clock + 1
      /\ mem' = [mem EXCEPT ![s].last_used = clock + 1]
  BY DEF PersistChatSession, Begin, Enter
<1>2. mem'[s].last_used = clock + 1
  BY <1>1, Now DEF Held
<1>3. CacheCall' /\ MetaInv'
  BY <1>1, <1>2 DEF CacheCall, Starting, MetaInv, ReadsOK
<1> QED
  BY <1>3, ControlCache DEF CacheInv

\* A start reads the references, once none is in quarantine.
LEMMA StartCache ==
  ASSUME SessionInv, DiskInv, CacheInv, Crash \/ Panic \/ RecoverQuarantine \/ LoadSessionArchives
  PROVE  CacheInv'
<1>1. PICK c : c = proc'
  OBVIOUS
<1>2. ASSUME c.pc \in {"recover", "load", "idle"}, c.lease = NoLease,
             \A s \in Sessions : mem'[s].lease = NoLease /\ table'[s] = NoLease,
             CacheFiles', c.pc = "idle" \/ \A s \in Sessions : persisted'[s] = 0
      PROVE  CacheInv'
  <2>1. \A s \in Sessions : InHand(proc', s) = NoLease
    BY <1>1, <1>2 DEF InHand
  <2>2. CacheDiscard'
    BY <1>2, <2>1, LeaseFacts DEF CacheDiscard, AnyDiscard
  <2>3. CacheCall' /\ MetaInv'
    BY <1>1, <1>2 DEF CacheCall, MetaInv, ReadsOK, Starting
  <2> QED
    BY <1>2, <2>2, <2>3 DEF CacheInv
<1>3. CASE Crash \/ Panic
  <2>1. /\ c = [Idle EXCEPT !.pc = "recover"] /\ persisted' = [s \in Sessions |-> 0]
        /\ mem' = [s \in Sessions |-> Absent] /\ table' = [s \in Sessions |-> NoLease]
    BY <1>1, <1>3 DEF Crash, Panic, Start
  <2>2. c.pc = "recover" /\ c.lease = NoLease
    BY <2>1, IdleFacts DEF CallType
  <2>3. CacheFiles'
    BY <2>1 DEF CacheFiles
  <2> QED
    BY <1>2, <2>1, <2>2, <2>3, AbsentFacts
<1>4. CASE RecoverQuarantine \/ LoadSessionArchives
  <2>1. /\ mem' = mem /\ table' = table /\ disk' = disk /\ Starting
    BY <1>4 DEF RecoverQuarantine, LoadSessionArchives, disk_vars, Reached, Starting
  <2>2. \A s \in Sessions : mem'[s].lease = NoLease /\ table'[s] = NoLease
    BY <2>1, StartNow, AbsentFacts
  <2>3. \A s \in Sessions : persisted[s] = 0
    BY <2>1 DEF CacheInv, CacheCall
  <2>4. CASE LoadSessionArchives /\ proc.ok
    <3>1. proc.pc = "load" /\ proc.io = <<>> /\ Len(<<>>) = 0 /\ c = Idle
      BY <1>1, <2>4, EmptyFacts DEF LoadSessionArchives, Reached
    <3>2. \A s \in Sessions : persisted'[s] \in {0, LastUsed(disk, s, Reference)}
      <4>1. PICK used : used = [s \in Sessions |-> LastUsed(disk, s, Reference)]
        OBVIOUS
      <4>2. PICK new : new = Newest(used)
        OBVIOUS
      <4>3. persisted' = [s \in Sessions |-> IF s \in new THEN used[s] ELSE 0]
        BY <2>4, <4>1, <4>2 DEF LoadSessionArchives
      <4> QED
        BY <4>1, <4>3
    <3>3. \A f \in disk.files : f.intent = "Active"
      BY <3>1, <2>1, StartNow
    <3>4. ASSUME NEW s \in Sessions, persisted'[s] # 0
          PROVE  persisted'[s] = Recovered(disk, s)
      <4>1. persisted'[s] = LastUsed(disk, s, Reference)
        BY <3>2, <3>4
      <4>2. Exists(disk, s, Reference)
        BY <3>4, <4>1 DEF LastUsed
      <4>3. ~Marked(disk, s)
        BY <3>3 DEF Marked
      <4> QED
        BY <4>1, <4>2, <4>3 DEF Recovered
    <3>5. CacheFiles'
      BY <2>1, <3>4 DEF CacheFiles
    <3> QED
      BY <1>2, <2>2, <3>1, <3>5, IdleFacts
  <2>5. CASE RecoverQuarantine \/ (LoadSessionArchives /\ ~proc.ok)
    <3>1. persisted' = persisted
      BY <2>5 DEF RecoverQuarantine, LoadSessionArchives
    <3>2. CacheFiles'
      BY <2>3, <3>1 DEF CacheFiles
    <3>3. \/ RecoverQuarantine /\ \E v, io : c = [proc EXCEPT !.v = v, !.io = io, !.ok = TRUE]
          \/ \E pc \in {"load", "recover"} : \E io : c = Call(pc, NoLease, io)
      BY <1>1, <2>5 DEF RecoverQuarantine, LoadSessionArchives
    <3>4. CASE RecoverQuarantine /\ \E v, io : c = [proc EXCEPT !.v = v, !.io = io, !.ok = TRUE]
      <4>1. proc.pc = "recover" /\ proc.lease = NoLease
        BY <2>1, <3>4, StartNow DEF RecoverQuarantine, Reached
      <4>2. c.pc = "recover" /\ c.lease = NoLease
        BY <3>4, <4>1, Now DEF CallType
      <4> QED
        BY <1>2, <2>2, <2>3, <3>1, <3>2, <4>2
    <3>5. CASE \E pc \in {"load", "recover"} : \E io : c = Call(pc, NoLease, io)
      <4>1. c.pc \in {"load", "recover"} /\ c.lease = NoLease
        BY <3>5, CallScripted
      <4> QED
        BY <1>2, <2>2, <2>3, <3>1, <3>2, <4>1
    <3> QED
      BY <3>3, <3>4, <3>5
  <2> QED
    BY <1>4, <2>4, <2>5, Now
<1> QED
  BY <1>3, <1>4

LEMMA NextCacheInv ==
  ASSUME ForkParents = {}
  PROVE  SessionInv /\ SessionInv' /\ OneInv /\ FilesInv /\ TableInv /\ TableInv' /\ DiskInv
           /\ CacheInv /\ [Next]_vars => CacheInv'
<1> SUFFICES ASSUME SessionInv, SessionInv', OneInv, FilesInv, TableInv, TableInv', DiskInv, CacheInv, [Next]_vars
             PROVE  CacheInv'
  OBVIOUS
<1>1. CASE IoSucceeds \/ IoFails
  BY <1>1, IoSucceedsCache, IoFailsCache
<1>2. CASE Crash \/ Panic \/ RecoverQuarantine \/ LoadSessionArchives
  BY <1>2, StartCache
<1>3. CASE ServerStep
  <2>1. Persisted /\ proc.ok => Exists(disk, proc.v, Reference)
    <3> SUFFICES ASSUME Persisted, proc.ok
                 PROVE  Exists(disk, proc.v, Reference)
      OBVIOUS
    <3>1. proc.pc = "persisted" /\ proc.io = <<>> /\ Len(<<>>) = 0
      BY EmptyFacts DEF Persisted, Reached
    <3>2. clock # 0 /\ LastUsed(disk, proc.v, Reference) = clock
      BY <3>1 DEF FilesInv, PersistInv, PersistOK
    <3> QED
      BY <3>2 DEF LastUsed
  <2>2. LeaseFlow /\ Caches /\ Scripted(proc') /\ Direct(proc')
    BY <1>3, <2>1, ServerStepFlows, ControlCaches, ServerStepScripted, ServerStepDirect
  <2>3. ReadsOK(proc')
    BY <2>2, DirectReads
  <2> QED
    BY <2>2, <2>3, ScriptedCache
<1>4. CASE StoreControl
  <2>1. LeaseFlow /\ Caches /\ Scripted(proc') /\ ReadsOK(proc')
    BY <1>4, StoreControlFlows, ControlCaches, StoreControlScripted, StoreControlReads DEF CacheInv
  <2> QED
    BY <2>1, ScriptedCache
<1>5. CASE Request
  <2>1. PICK s \in Sessions : \/ LeaseContinueSession(s) \/ LeaseForkSession(s)
                              \/ PersistChatSession(s) \/ RetainFailedSession(s)
                              \/ \E why \in {"cancelled", "ended"} : DiscardStoredSession(s, why)
    BY <1>5 DEF Request
  <2>2. ~LeaseForkSession(s) /\ LeaseFlow /\ Caches
    BY <1>5, RequestFlows, ControlCaches DEF LeaseForkSession
  <2>3. CASE PersistChatSession(s)
    BY <2>2, <2>3, PersistChatSessionCache
  <2>4. CASE LeaseContinueSession(s) \/ RetainFailedSession(s)
             \/ \E why \in {"cancelled", "ended"} : DiscardStoredSession(s, why)
    <3>1. Scripted(proc') /\ Direct(proc')
      BY <2>4, RequestScripted, RequestDirect
    <3>2. ReadsOK(proc')
      BY <3>1, DirectReads
    <3> QED
      BY <2>2, <3>1, <3>2, ScriptedCache
  <2> QED
    BY <2>1, <2>2, <2>3, <2>4
<1>6. CASE UNCHANGED vars
  BY <1>6 DEF vars, CacheInv, MetaInv, ReadsOK, CacheDiscard, CacheFiles, CacheCall, Starting
<1> QED
  BY <1>1, <1>2, <1>3, <1>4, <1>5, <1>6 DEF Next, StoreStep, StoreControl

LEMMA InitCacheInv == Init => CacheInv
<1> SUFFICES ASSUME Init
             PROVE  CacheInv
  OBVIOUS
<1>1. proc.pc = "idle" /\ \A s \in Sessions : persisted[s] = 0
  BY IdleFacts DEF Init
<1> QED
  BY <1>1 DEF CacheInv, MetaInv, ReadsOK, CacheDiscard, CacheFiles, CacheCall, Starting

LEMMA CacheInvAlways ==
  ASSUME ForkParents = {}
  PROVE  Spec => []CacheInv
<1>1. Init => CacheInv
  BY InitCacheInv
<1>2. SessionInv /\ SessionInv' /\ OneInv /\ FilesInv /\ TableInv /\ TableInv' /\ DiskInv
        /\ CacheInv /\ [Next]_vars => CacheInv'
  BY NextCacheInv
<1> QED
  BY <1>1, <1>2, DiskInvAlways, PTL DEF Spec

\* While no running session is forked, the cached archive of a session is, between requests,
\* the one that its reference names, in refs/ or in quarantine: every persist that ends
\* refreshes or drops the entry, every discard drops it, and persisted_metadata reads no
\* reference that another one replaces.  A restore then never finds that "the persisted
\* session reference changed".
THEOREM CacheAlwaysAgrees ==
  ASSUME ForkParents = {}
  PROVE  Spec => []CacheAgrees
<1>1. CacheInv => CacheAgrees
  BY DEF CacheInv, CacheFiles, Ahead, CacheAgrees
<1> QED
  BY <1>1, CacheInvAlways, PTL

=============================================================================
