---------------------------- MODULE LoadingProofs ----------------------------
(***************************************************************************)
(* Theorems about the two parts that load in the background unless they    *)
(* are waited for, for any values of their constants: FileView and         *)
(* LazyLoader.  Each has its types and its safety invariants.              *)
(*                                                                         *)
(* The methods of both are functions of the state of an object, so that    *)
(* what they keep is stated of any.  What a FileView shows and saves can   *)
(* only be counted on if the others are trusted, which is said of `care`;  *)
(* what a LazyLoader loads, if QML is patient.                             *)
(***************************************************************************)
EXTENDS FileView, LazyLoader, SequenceTheorems, TLAPS

AnyPath  == Paths \cup {NoPath}
Contents == Texts \cup {Absent}
States   == [path : AnyPath, data : Texts, error : BOOLEAN]
Phases   == {"queued", "opened", "ended", "gone"}

Operations == [kind : {"read", "write"}, phase : Phases, state : States,
               cancel : BOOLEAN, connected : BOOLEAN, atomic : BOOLEAN]

Views == [target : AnyPath, inFlight : AnyPath, path : AnyPath, data : Texts, write : Texts,
          live : Nat, prepared : BOOLEAN, watch : BOOLEAN]

Mains == [view : Views, ops : Seq(Operations), disk : [Paths -> Contents],
          watcher : {"none", "directory", "file"}, notices : SUBSET {"file", "directory"},
          asked : [Paths -> Texts \cup {NoText}]]

-----------------------------------------------------------------------------
(* File views: the strengthening, of a state m of the view.                *)

\* The live operation is of the file of the view, and goes on.
LiveIsOpen(m) ==
    m.view.live # 0 =>
        /\ m.view.live \in DOMAIN m.ops
        /\ m.ops[m.view.live].connected /\ ~m.ops[m.view.live].cancel
        /\ m.ops[m.view.live].phase # "gone"
        /\ m.ops[m.view.live].state.path = m.view.target /\ m.view.target # NoPath

PathShown(m) == "handlers" \in care /\ m.view.prepared => m.view.path = m.view.target

Writes(op) == op.kind = "write" /\ op.phase \in {"queued", "opened"}

WritesLive(m) ==
    "handlers" \in care => \A i \in DOMAIN m.ops : Writes(m.ops[i]) => m.view.live = i

OpsNamed(m) == \A i \in DOMAIN m.ops : m.ops[i].phase # "gone" => m.ops[i].state.path # NoPath

Sound(m) == m \in Mains /\ LiveIsOpen(m) /\ PathShown(m) /\ WritesLive(m) /\ OpsNamed(m)

\* What is shown can be counted on.
Trusted == {"files", "handlers", "reloads"} \subseteq care

\* The view is not prepared while it reads, what an operation has ended with
\* is what the file holds, and so is what the view shows; after e edits, if
\* there is no more to tell of.
Shown(m, e) ==
    /\ LiveIs(m, "read") => ~m.view.prepared
    /\ m.view.live # 0 /\ m.ops[m.view.live].phase = "ended"
       => m.ops[m.view.live].state.data = Text(m.disk[m.view.target])
    /\ /\ m.view.prepared /\ m.view.live = 0 /\ m.view.target # NoPath
       /\ e = 0 \/ (m.view.watch /\ m.notices = {})
       => m.view.data = Text(m.disk[m.view.target])

\* The watcher sees every change, or has one to tell of.
Watches(m) ==
    m.view.watch /\ m.view.target # NoPath =>
        /\ m.watcher # "none"
        /\ m.watcher = "directory" => m.disk[m.view.target] = Absent \/ "directory" \in m.notices
        /\ "directory" \in m.notices => /\ m.watcher = "directory"
                                        /\ m.disk[m.view.target] = Absent => "file" \in m.notices

\* The view reads its file in advance.
InFlight(m) == m.view.target # NoPath => m.view.inFlight = m.view.target

\* What was asked for is under way, or done.
Recorded(m) ==
    /\ LiveIs(m, "write") => /\ m.asked[m.view.target] = m.ops[m.view.live].state.data
                             /\ m.view.write \in {Empty, m.ops[m.view.live].state.data}
    /\ ~LiveIs(m, "write") => m.view.write = Empty
    /\ \A p \in Paths : m.asked[p] # NoText /\ ~(LiveIs(m, "write") /\ p = m.view.target)
                        => Text(m.disk[p]) = m.asked[p]

Good(m, e) == /\ Sound(m)
              /\ Trusted => Shown(m, e)
              /\ care = Cares => Recorded(m)

IInv == /\ Good(main, edits)
        /\ Trusted => Watches(main) /\ InFlight(main)
        /\ care \subseteq Cares /\ calls \in 0..MaxCalls /\ edits \in 0..MaxEdits

\* What methods that leave the path alone keep of the watcher.
Stays(m, n) == /\ n.view.target = m.view.target
               /\ n.view.inFlight = m.view.inFlight
               /\ n.view.watch = m.view.watch
               /\ Watches(m) => Watches(n)

-----------------------------------------------------------------------------
(* Operations.                                                             *)

LEMMA Constants ==
    /\ NoPath \notin Paths /\ Empty \in Texts /\ Absent \notin Texts /\ NoText \notin Texts
    /\ MaxOps \in Nat /\ MaxCalls \in Nat /\ MaxEdits \in Nat
BY ConstantsAssumption

LEMMA TextFacts ==
    ASSUME NEW content \in Contents
    PROVE  /\ Text(content) \in Texts
           /\ content \in Texts => Text(content) = content
BY Constants DEF Text, Contents

LEMMA ReadFacts ==
    ASSUME NEW m \in Mains, NEW p \in Paths
    PROVE  /\ Read(m, p) \in States
           /\ Read(m, p).path = p
           /\ Read(m, p).data = Text(m.disk[p])
<1>1. m.disk[p] \in Contents
  BY DEF Mains
<1>2. Text(m.disk[p]) \in Texts
  BY <1>1, TextFacts
<1> QED
  BY <1>2 DEF Read, State, States, AnyPath

\* A file that is written holds the content, and the watcher sees it.
LEMMA WrittenFacts ==
    ASSUME NEW m \in Mains, NEW p \in Paths, NEW content \in Contents, NEW renamed \in BOOLEAN
    PROVE  LET n == Written(m, p, content, renamed)
           IN  /\ n \in Mains
               /\ n.view = m.view /\ n.ops = m.ops /\ n.asked = m.asked
               /\ n.disk[p] = content
               /\ \A q \in Paths : q # p => n.disk[q] = m.disk[q]
               /\ m.notices \subseteq n.notices
               /\ p # m.view.target => n.notices = m.notices /\ n.watcher = m.watcher
               /\ content # Absent /\ Watches(m) => Watches(n)
<1> DEFINE new == renamed \/ m.disk[p] = Absent \/ content = Absent
           sees == p = m.view.target /\ m.watcher # "none"
           n == Written(m, p, content, renamed)
           w == IF sees /\ new THEN "directory" ELSE m.watcher
           told == IF ~sees THEN m.notices
                   ELSE m.notices \cup (IF m.watcher = "file" THEN {"file"} ELSE {})
                                  \cup (IF new THEN {"directory"} ELSE {})
<1>1. n = [m EXCEPT !.disk[p] = content, !.watcher = w, !.notices = told]
  BY DEF Written
<1>2. /\ m.disk \in [Paths -> Contents] /\ m.watcher \in {"none", "directory", "file"}
      /\ m.notices \in SUBSET {"file", "directory"}
  BY DEF Mains
<1>3. /\ w \in {"none", "directory", "file"} /\ told \in SUBSET {"file", "directory"}
      /\ [m.disk EXCEPT ![p] = content] \in [Paths -> Contents]
      /\ m.notices \subseteq told
  BY <1>2
<1>4. /\ n.view = m.view /\ n.ops = m.ops /\ n.asked = m.asked
      /\ n.disk = [m.disk EXCEPT ![p] = content]
      /\ n.watcher = w /\ n.notices = told
  <2> HIDE DEF w, told, n
  <2> QED
    BY <1>1 DEF Mains
<1>5. n \in Mains
  <2> HIDE DEF w, told, n
  <2> QED
    BY <1>1, <1>3 DEF Mains
<1>6. /\ n.disk[p] = content
      /\ \A q \in Paths : q # p => n.disk[q] = m.disk[q]
  BY <1>2, <1>4
<1>7. p # m.view.target => n.notices = m.notices /\ n.watcher = m.watcher
  BY <1>4
<1>8. ASSUME content # Absent, Watches(m), n.view.watch, n.view.target # NoPath
      PROVE  /\ n.watcher # "none"
             /\ n.watcher = "directory" =>
                    n.disk[n.view.target] = Absent \/ "directory" \in n.notices
             /\ "directory" \in n.notices =>
                    /\ n.watcher = "directory"
                    /\ n.disk[n.view.target] = Absent => "file" \in n.notices
  <2>1. /\ m.watcher # "none"
        /\ m.watcher = "directory" => m.disk[m.view.target] = Absent \/ "directory" \in m.notices
        /\ "directory" \in m.notices => /\ m.watcher = "directory"
                                        /\ m.disk[m.view.target] = Absent => "file" \in m.notices
    BY <1>4, <1>8 DEF Watches
  <2>2. m.view.target \in Paths
    BY <1>4, <1>8 DEF Mains, Views, AnyPath
  <2>3. CASE p # m.view.target
    BY <1>4, <1>6, <1>7, <2>1, <2>2, <2>3
  <2>4. CASE p = m.view.target
    BY <1>4, <1>6, <1>8, <2>1, <2>4
  <2> QED
    BY <2>3, <2>4
<1> HIDE DEF n
<1> QED
  BY <1>3, <1>4, <1>5, <1>6, <1>7, <1>8 DEF Watches, n

\* The ends an operation comes to are of its file; a read that had not ended
\* has read it, and a write that had not and goes on has written it.
LEMMA EndsFacts ==
    ASSUME NEW m \in Mains, NEW op \in Operations, op.state.path \in Paths, NEW r \in Ends(m, op)
    PROVE  /\ r.state \in States /\ r.content \in Contents
           /\ r.state.path = op.state.path
           /\ op.phase = "ended" => r.state = op.state
           /\ op.kind = "write" => r.state.data = op.state.data
           /\ op.kind = "read" /\ op.phase # "ended" =>
                  r.state.data = Text(m.disk[op.state.path])
           /\ "files" \in care /\ op.kind = "write" /\ op.phase # "ended" /\ ~op.cancel =>
                  r.content = op.state.data
           /\ op.kind = "write" /\ op.phase # "ended" =>
                  \/ r.content = m.disk[op.state.path]
                  \/ r.content \in Texts
<1> DEFINE p == op.state.path
           torn == IF op.atomic THEN m.disk[p] ELSE Empty
           left == IF op.phase = "opened" THEN torn ELSE m.disk[p]
           fails == "files" \notin care
           Happens(error, content) ==
               \/ ~error /\ content = op.state.data
               \/ /\ IF error THEN fails ELSE op.cancel \/ (fails /\ op.atomic)
                  /\ content \in {left, torn}
           made(o) == [state |-> State(p, op.state.data, o[1]), content |-> o[2]]
<1>1. /\ p \in Paths /\ m.disk[p] \in Contents /\ op.state.data \in Texts
      /\ op.state \in States /\ op.kind \in {"read", "write"}
  BY DEF Mains, Operations, States
<1>2. CASE op.phase = "ended"
  <2>1. r = [state |-> op.state, content |-> m.disk[p]]
    BY <1>2 DEF Ends
  <2> QED
    BY <1>1, <1>2, <2>1
<1>3. CASE op.phase # "ended" /\ op.kind = "read"
  <2>1. r = [state |-> Read(m, p), content |-> m.disk[p]]
    BY <1>3 DEF Ends
  <2> QED
    BY <1>1, <1>3, <2>1, ReadFacts
<1>4. CASE op.phase # "ended" /\ op.kind = "write"
  <2>1. PICK o \in BOOLEAN \X (Texts \cup {Absent}) : Happens(o[1], o[2]) /\ r = made(o)
    BY <1>4 DEF Ends
  <2>2. o[1] \in BOOLEAN /\ o[2] \in Contents
    BY DEF Contents
  <2>3. r.content = o[2] /\ r.state = State(p, op.state.data, o[1])
    BY <2>1
  <2>4. /\ r.state \in States /\ r.state.path = p /\ r.state.data = op.state.data
    BY <1>1, <2>2, <2>3 DEF State, States, AnyPath
  <2>5. ~fails /\ ~op.cancel => o[2] = op.state.data
    BY <2>1, <2>2
  <2>6. o[2] = m.disk[p] \/ o[2] \in Texts
    BY <1>1, <2>1, Constants
  <2> QED
    BY <1>4, <2>2, <2>3, <2>4, <2>5, <2>6
<1> QED
  BY <1>1, <1>2, <1>3, <1>4

\* What an operation leaves behind.
LEMMA LeaveFacts ==
    ASSUME NEW m \in Mains, NEW op \in Operations, op.state.path \in Paths, NEW r \in Ends(m, op)
    PROVE  LET n == Leave(m, op, r)
           IN  /\ n \in Mains
               /\ n.view = m.view /\ n.ops = m.ops /\ n.asked = m.asked
               /\ \A q \in Paths : q # op.state.path => n.disk[q] = m.disk[q]
               /\ op.kind = "read" \/ op.phase = "ended" => n = m
               /\ op.kind = "write" /\ op.phase # "ended" /\ r.content = op.state.data
                  => n.disk[op.state.path] = op.state.data
               /\ Watches(m) => Watches(n)
               /\ m.notices \subseteq n.notices
<1>1. /\ r.content \in Contents /\ r.state.path = op.state.path
      /\ op.kind = "write" /\ op.phase # "ended" =>
             r.content = m.disk[op.state.path] \/ r.content \in Texts
      /\ op.atomic \in BOOLEAN /\ op.state.data \in Texts
  BY EndsFacts DEF Operations, States
<1>2. CASE \/ op.kind = "read" \/ op.phase = "ended"
           \/ r.content = m.disk[r.state.path] /\ r.content # op.state.data
  BY <1>1, <1>2 DEF Leave
<1>3. CASE ~(\/ op.kind = "read" \/ op.phase = "ended"
             \/ r.content = m.disk[r.state.path] /\ r.content # op.state.data)
  <2>1. Leave(m, op, r) = Written(m, op.state.path, r.content, op.atomic)
    BY <1>1, <1>3 DEF Leave
  <2>2. r.content # Absent
    BY <1>1, <1>3, Constants DEF Operations
  <2> QED
    BY <1>1, <1>3, <2>1, <2>2, WrittenFacts
<1> QED
  BY <1>2, <1>3

-----------------------------------------------------------------------------
(* The methods.                                                            *)

\* All but the view, and of the view what a load or save leaves alone.
Beside(m, n) == /\ n.ops = m.ops /\ n.disk = m.disk /\ n.watcher = m.watcher
                /\ n.notices = m.notices /\ n.asked = m.asked
SameFile(m, n) == /\ n.view.target = m.view.target /\ n.view.inFlight = m.view.inFlight
                  /\ n.view.watch = m.view.watch

LEMMA BesideStays ==
    ASSUME NEW m, NEW n, Beside(m, n), SameFile(m, n)
    PROVE  Stays(m, n)
BY DEF Beside, SameFile, Stays, Watches

LEMMA StaysOn ==
    ASSUME NEW m, NEW n, NEW k, Stays(m, n), Stays(n, k)
    PROVE  Stays(m, k)
BY DEF Stays

LEMMA UpdateFacts ==
    ASSUME NEW m \in Mains, NEW state \in States
    PROVE  LET n == UpdateState(m, state)
           IN  /\ n \in Mains /\ Beside(m, n) /\ SameFile(m, n)
               /\ n.view.live = m.view.live /\ n.view.write = m.view.write
               /\ n.view.path = state.path /\ n.view.data = state.data /\ n.view.prepared = TRUE
<1> DEFINE n == UpdateState(m, state)
<1>1. n = [m EXCEPT !.view.path = state.path, !.view.data = state.data, !.view.prepared = TRUE]
  BY DEF UpdateState
<1> HIDE DEF n
<1>2. n \in Mains
  <2>1. state.path \in AnyPath /\ state.data \in Texts
    BY DEF States
  <2> QED
    BY <1>1, <2>1 DEF Mains, Views
<1>3. /\ Beside(m, n) /\ SameFile(m, n)
      /\ n.view.live = m.view.live /\ n.view.write = m.view.write
      /\ n.view.path = state.path /\ n.view.data = state.data /\ n.view.prepared = TRUE
  BY <1>1 DEF Mains, Views, Beside, SameFile
<1> QED
  BY <1>2, <1>3 DEF n

LEMMA TakeFacts ==
    ASSUME NEW m \in Mains, m.view.live \in DOMAIN m.ops
    PROVE  LET n == TakeState(m)
               op == m.ops[m.view.live]
           IN  /\ n \in Mains /\ Beside(m, n) /\ SameFile(m, n)
               /\ n.view.live = m.view.live /\ n.view.write = Empty
               /\ n.view.path = op.state.path /\ n.view.data = op.state.data
               /\ n.view.prepared = TRUE
<1> DEFINE op == m.ops[m.view.live]
           u == UpdateState(m, op.state)
           n == TakeState(m)
<1>1. op.state \in States
  <2>1. op \in Operations
    BY ElementOfSeq, LenProperties DEF Mains
  <2> QED
    BY <2>1 DEF Operations
<1>2. /\ u \in Mains /\ Beside(m, u) /\ SameFile(m, u)
      /\ u.view.live = m.view.live
      /\ u.view.path = op.state.path /\ u.view.data = op.state.data /\ u.view.prepared = TRUE
  BY <1>1, UpdateFacts
<1>3. n = [u EXCEPT !.view.write = Empty]
  BY DEF TakeState
<1> HIDE DEF u, n
<1>4. n \in Mains
  BY <1>2, <1>3, Constants DEF Mains, Views
<1>5. /\ Beside(m, n) /\ SameFile(m, n)
      /\ n.view.live = m.view.live /\ n.view.write = Empty
      /\ n.view.path = op.state.path /\ n.view.data = op.state.data /\ n.view.prepared = TRUE
  BY <1>2, <1>3 DEF Mains, Views, Beside, SameFile
<1> QED
  BY <1>4, <1>5 DEF n

\* One operation becomes another.
LEMMA OpsExcept ==
    ASSUME NEW ops \in Seq(Operations), NEW i \in DOMAIN ops, NEW op \in Operations
    PROVE  LET t == [ops EXCEPT ![i] = op]
           IN  /\ t \in Seq(Operations) /\ DOMAIN t = DOMAIN ops /\ Len(t) = Len(ops)
               /\ t[i] = op /\ \A j \in DOMAIN ops : j # i => t[j] = ops[j]
<1>1. ops[i] \in Operations /\ i \in 1..Len(ops) /\ DOMAIN ops = 1..Len(ops)
  BY ElementOfSeq, LenProperties
<1> QED
  BY <1>1, ExceptSeq

\* The state with another operation i.
WithOp(m, i, op) == [m EXCEPT !.ops[i] = op]

LEMMA WithOpFacts ==
    ASSUME NEW m \in Mains, NEW i \in DOMAIN m.ops, NEW op \in Operations
    PROVE  LET n == WithOp(m, i, op)
           IN  /\ n \in Mains
               /\ n.view = m.view /\ n.disk = m.disk /\ n.watcher = m.watcher
               /\ n.notices = m.notices /\ n.asked = m.asked
               /\ DOMAIN n.ops = DOMAIN m.ops /\ n.ops[i] = op
               /\ \A j \in DOMAIN m.ops : j # i => n.ops[j] = m.ops[j]
<1> DEFINE t == [m.ops EXCEPT ![i] = op]
           n == WithOp(m, i, op)
<1>1. /\ t \in Seq(Operations) /\ DOMAIN t = DOMAIN m.ops
      /\ t[i] = op /\ \A j \in DOMAIN m.ops : j # i => t[j] = m.ops[j]
  <2>1. m.ops \in Seq(Operations)
    BY DEF Mains
  <2> QED
    BY <2>1, OpsExcept
<1>2. n = [m EXCEPT !.ops = t]
  BY DEF WithOp
<1> HIDE DEF t, n
<1>3. n \in Mains
  BY <1>1, <1>2 DEF Mains
<1>4. /\ n.view = m.view /\ n.disk = m.disk /\ n.watcher = m.watcher
      /\ n.notices = m.notices /\ n.asked = m.asked /\ n.ops = t
  BY <1>2 DEF Mains
<1> QED
  BY <1>1, <1>3, <1>4 DEF n

\* The pool has the operation, and nothing else is done.
LEMMA StartFacts ==
    ASSUME NEW c, Sound(c), c.view.live = 0, c.view.target # NoPath,
           NEW kind \in {"read", "write"}, NEW data \in Texts, NEW atomic \in BOOLEAN
    PROVE  LET n == Start(c, kind, data, atomic)
           IN  /\ Sound(n) /\ n.view.live # 0
               /\ n.view = [c.view EXCEPT !.live = n.view.live]
               /\ n.ops[n.view.live] = Operation(kind, c.view.target, data, atomic)
               /\ n.disk = c.disk /\ n.watcher = c.watcher /\ n.notices = c.notices
               /\ n.asked = c.asked /\ DOMAIN c.ops \subseteq DOMAIN n.ops
<1> DEFINE op == Operation(kind, c.view.target, data, atomic)
           l == Len(c.ops) + 1
           t == Append(c.ops, op)
           n == Start(c, kind, data, atomic)
<1>1. c \in Mains /\ c.ops \in Seq(Operations)
  BY DEF Sound, Mains
<1>2. /\ op \in Operations /\ op.phase = "queued" /\ op.connected /\ ~op.cancel
      /\ op.state.path = c.view.target
  BY <1>1 DEF Operation, Operations, State, States, Phases, Mains, Views
<1> HIDE DEF op
<1>3. /\ t \in Seq(Operations) /\ l \in Nat /\ l # 0 /\ DOMAIN t = 1..l /\ t[l] = op
      /\ DOMAIN c.ops = 1..Len(c.ops)
      /\ \A j \in DOMAIN c.ops : j # l /\ j \in DOMAIN t /\ t[j] = c.ops[j]
      /\ \A j \in DOMAIN t : j # l => j \in DOMAIN c.ops
  <2>1. t \in Seq(Operations) /\ Len(t) = l /\ t[l] = op
        /\ \A j \in 1..Len(c.ops) : t[j] = c.ops[j]
    BY <1>1, <1>2, AppendProperties
  <2>2. Len(c.ops) \in Nat /\ DOMAIN c.ops = 1..Len(c.ops)
    BY <1>1, LenProperties
  <2>3. DOMAIN t = 1..l
    BY <2>1, LenProperties
  <2> QED
    BY <2>1, <2>2, <2>3
<1>4. n = [c EXCEPT !.ops = t, !.view.live = l]
  BY DEF Start, op
<1> HIDE DEF t, l, n
<1>5. n \in Mains
  BY <1>1, <1>3, <1>4 DEF Mains, Views
<1>6. /\ n.ops = t /\ n.view = [c.view EXCEPT !.live = l]
      /\ n.disk = c.disk /\ n.watcher = c.watcher /\ n.notices = c.notices /\ n.asked = c.asked
  BY <1>1, <1>4 DEF Mains
<1>7. /\ n.view.live = l /\ n.view.target = c.view.target /\ n.view.path = c.view.path
      /\ n.view.prepared = c.view.prepared
  BY <1>1, <1>6 DEF Mains, Views
<1>8. Sound(n)
  <2>1. LiveIsOpen(n)
    BY <1>2, <1>3, <1>6, <1>7 DEF LiveIsOpen
  <2>2. PathShown(n)
    BY <1>7 DEF PathShown, Sound
  <2>3. WritesLive(n)
    <3>1. "handlers" \in care => \A j \in DOMAIN c.ops : ~Writes(c.ops[j])
      BY LenProperties, <1>1 DEF Sound, WritesLive
    <3> QED
      BY <1>3, <1>6, <1>7, <3>1 DEF WritesLive
  <2>4. OpsNamed(n)
    BY <1>2, <1>3, <1>6 DEF OpsNamed, Sound
  <2> QED
    BY <1>5, <2>1, <2>2, <2>3, <2>4 DEF Sound
<1> QED
  BY <1>3, <1>6, <1>7, <1>8 DEF op, n

\* What is to be written is another text, or none.
LEMMA WriteFacts ==
    ASSUME NEW m, Sound(m), NEW text \in Texts
    PROVE  LET n == [m EXCEPT !.view.write = text]
           IN  /\ Sound(n) /\ Beside(m, n) /\ SameFile(m, n)
               /\ n.view = [m.view EXCEPT !.write = text]
               /\ n.view.live = m.view.live /\ n.view.data = m.view.data
               /\ n.view.path = m.view.path /\ n.view.prepared = m.view.prepared
               /\ n.view.write = text
<1> DEFINE n == [m EXCEPT !.view.write = text]
<1>1. m \in Mains
  BY DEF Sound
<1>2. n \in Mains
  BY <1>1 DEF Mains, Views
<1>3. Beside(m, n) /\ n.view = [m.view EXCEPT !.write = text]
  BY <1>1 DEF Mains, Beside
<1>4. /\ SameFile(m, n) /\ n.view.live = m.view.live /\ n.view.data = m.view.data
      /\ n.view.path = m.view.path /\ n.view.prepared = m.view.prepared
      /\ n.view.write = text
  BY <1>1, <1>3 DEF Mains, Views, SameFile
<1> HIDE DEF n
<1>5. Sound(n)
  BY <1>2, <1>3, <1>4
  DEF Sound, LiveIsOpen, PathShown, WritesLive, OpsNamed, Beside, SameFile
<1> QED
  BY <1>3, <1>4, <1>5 DEF n

\* What cancelAsync makes of m: nothing is under way, and nothing is written;
\* only what a write that was under way, or a handler, has left is not known.
Cancelled(m, c) ==
    /\ Sound(c) /\ c.view.live = 0
    /\ SameFile(m, c) /\ DOMAIN m.ops \subseteq DOMAIN c.ops
    /\ "handlers" \in care => c.asked = m.asked
    /\ Watches(m) => Watches(c)
    /\ \A q \in Paths : q # m.view.target => c.disk[q] = m.disk[q]
    /\ ~LiveIs(m, "write") => /\ c.view = [m.view EXCEPT !.live = 0]
                              /\ c.disk = m.disk /\ c.asked = m.asked
    /\ "handlers" \in care /\ LiveIs(m, "write") => c.view.write = Empty

\* saveAsync: the text is that of a write that is the live operation.
LEMMA SaveAsyncFacts ==
    ASSUME NEW m \in Mains, m.view.target # NoPath, NEW cs, \A c \in cs : Cancelled(m, c),
           NEW n \in SaveAsync(m, cs)
    PROVE  /\ Sound(n) /\ SameFile(m, n) /\ DOMAIN m.ops \subseteq DOMAIN n.ops
           /\ Watches(m) => Watches(n)
           /\ "handlers" \in care => n.asked = m.asked
           /\ n.view.live # 0
           /\ n.ops[n.view.live].kind = "write" /\ n.ops[n.view.live].phase = "queued"
           /\ n.ops[n.view.live].state.data = m.view.write
           /\ "handlers" \in care => n.view.write \in {Empty, m.view.write}
           /\ \A q \in Paths : q # m.view.target => n.disk[q] = m.disk[q]
<1>1. PICK c \in cs, atomic \in BOOLEAN : n = Start(c, "write", m.view.write, atomic)
  BY DEF SaveAsync
<1>2. m.view.write \in Texts /\ "write" \in {"read", "write"}
  BY DEF Mains, Views
<1>3. /\ Sound(c) /\ c.view.live = 0
      /\ SameFile(m, c) /\ DOMAIN m.ops \subseteq DOMAIN c.ops
      /\ "handlers" \in care => c.asked = m.asked
      /\ Watches(m) => Watches(c)
      /\ \A q \in Paths : q # m.view.target => c.disk[q] = m.disk[q]
      /\ ~LiveIs(m, "write") => c.view = [m.view EXCEPT !.live = 0]
      /\ "handlers" \in care /\ LiveIs(m, "write") => c.view.write = Empty
  BY DEF Cancelled
<1>4. "handlers" \in care => c.view.write \in {Empty, m.view.write}
  BY <1>2, <1>3 DEF Mains, Views
<1>5. c.view.target # NoPath /\ c.view.target = m.view.target
  BY <1>3 DEF SameFile
<1>6. /\ Sound(n) /\ n.view.live # 0
      /\ n.view = [c.view EXCEPT !.live = n.view.live]
      /\ n.ops[n.view.live] = Operation("write", c.view.target, m.view.write, atomic)
      /\ n.disk = c.disk /\ n.watcher = c.watcher /\ n.notices = c.notices
      /\ n.asked = c.asked /\ DOMAIN c.ops \subseteq DOMAIN n.ops
  BY <1>1, <1>2, <1>3, <1>5, StartFacts
<1>7. /\ n.ops[n.view.live].kind = "write" /\ n.ops[n.view.live].phase = "queued"
      /\ n.ops[n.view.live].state.data = m.view.write
  BY <1>6 DEF Operation, State
<1>8. SameFile(c, n) /\ n.view.write = c.view.write
  BY <1>3, <1>6 DEF SameFile, Sound, Mains, Views
<1>9. Watches(c) => Watches(n)
  BY <1>6, <1>8 DEF Watches, SameFile
<1> QED
  BY <1>3, <1>4, <1>6, <1>7, <1>8, <1>9 DEF SameFile

\* saveSync: a text that can be written and need not wait for another is that
\* of the file.
LEMMA SaveSyncFacts ==
    ASSUME NEW m \in Mains, m.view.target # NoPath, NEW cs, \A c \in cs : Cancelled(m, c),
           NEW n \in SaveSync(m, cs)
    PROVE  /\ Sound(n) /\ SameFile(m, n) /\ DOMAIN m.ops \subseteq DOMAIN n.ops
           /\ Watches(m) => Watches(n)
           /\ "handlers" \in care => n.asked = m.asked
           /\ n.view.live = 0 /\ n.view.write = Empty
           /\ "files" \in care => n.view.data = Text(n.disk[m.view.target])
           /\ "files" \in care /\ ~LiveIs(m, "write") => n.disk[m.view.target] = m.view.write
           /\ \A q \in Paths : q # m.view.target => n.disk[q] = m.disk[q]
<1>1. PICK c \in cs, atomic \in BOOLEAN :
          \E r \in Ends(c, Operation("write", c.view.target, c.view.write, atomic)) :
              n = [UpdateState(Leave(c, Operation("write", c.view.target, c.view.write, atomic), r),
                               r.state) EXCEPT !.view.write = Empty]
  BY DEF SaveSync
<1>2. PICK op : op = Operation("write", c.view.target, c.view.write, atomic)
  OBVIOUS
<1>3. PICK r \in Ends(c, op) :
          n = [UpdateState(Leave(c, op, r), r.state) EXCEPT !.view.write = Empty]
  BY <1>1, <1>2
<1>4. /\ Sound(c) /\ c.view.live = 0
      /\ SameFile(m, c) /\ DOMAIN m.ops \subseteq DOMAIN c.ops
      /\ "handlers" \in care => c.asked = m.asked
      /\ Watches(m) => Watches(c)
      /\ \A q \in Paths : q # m.view.target => c.disk[q] = m.disk[q]
      /\ ~LiveIs(m, "write") => c.view = [m.view EXCEPT !.live = 0]
  BY DEF Cancelled
<1>5. /\ c \in Mains /\ c.view.target = m.view.target /\ c.view.target \in Paths
      /\ c.view.write \in Texts
  BY <1>4 DEF Sound, SameFile, Mains, Views, AnyPath
<1>6. ~LiveIs(m, "write") => c.view.write = m.view.write
  BY <1>4 DEF Sound, Mains, Views
<1>7. /\ op \in Operations /\ op.state.path \in Paths /\ op.state.path = m.view.target
      /\ op.state.data = c.view.write /\ op.kind = "write" /\ op.phase = "queued"
      /\ ~op.cancel
  BY <1>2, <1>5 DEF Operation, Operations, State, States, Phases, AnyPath
<1>8. /\ r.state \in States /\ r.content \in Contents
      /\ r.state.path = m.view.target /\ r.state.data = op.state.data
      /\ "files" \in care => r.content = op.state.data
  BY <1>5, <1>7, EndsFacts
<1>9. PICK x : x = Leave(c, op, r)
  OBVIOUS
<1>10. /\ x \in Mains
       /\ x.view = c.view /\ x.ops = c.ops /\ x.asked = c.asked
       /\ \A q \in Paths : q # m.view.target => x.disk[q] = c.disk[q]
       /\ r.content = op.state.data => x.disk[m.view.target] = op.state.data
       /\ Watches(c) => Watches(x)
  BY <1>5, <1>7, <1>9, LeaveFacts
<1>11. Sound(x)
  BY <1>4, <1>10 DEF Sound, LiveIsOpen, PathShown, WritesLive, OpsNamed
<1>12. PICK u : u = UpdateState(x, r.state)
  OBVIOUS
<1>13. /\ u \in Mains /\ Beside(x, u) /\ SameFile(x, u)
       /\ u.view.live = x.view.live
       /\ u.view.path = r.state.path /\ u.view.data = r.state.data /\ u.view.prepared = TRUE
  BY <1>8, <1>10, <1>12, UpdateFacts
<1>14. Sound(u)
  <2>1. LiveIsOpen(u) /\ PathShown(u)
    BY <1>4, <1>5, <1>8, <1>10, <1>13 DEF LiveIsOpen, PathShown, SameFile
  <2>2. WritesLive(u) /\ OpsNamed(u)
    BY <1>11, <1>13 DEF WritesLive, OpsNamed, Sound, Beside
  <2> QED
    BY <1>13, <2>1, <2>2 DEF Sound
<1>15. n = [u EXCEPT !.view.write = Empty] /\ Empty \in Texts
  BY <1>3, <1>9, <1>12, Constants
<1>16. /\ Sound(n) /\ Beside(u, n) /\ SameFile(u, n)
       /\ n.view.live = u.view.live /\ n.view.data = u.view.data /\ n.view.write = Empty
  BY <1>14, <1>15, WriteFacts
<1>17. SameFile(m, n) /\ n.ops = c.ops /\ n.disk = x.disk
  BY <1>4, <1>10, <1>13, <1>16 DEF SameFile, Beside
<1>18. Watches(m) => Watches(n)
  <2>1. Stays(x, u) /\ Stays(u, n)
    BY <1>13, <1>16, BesideStays
  <2> QED
    BY <1>4, <1>10, <2>1 DEF Stays
<1>19. "files" \in care => n.view.data = Text(n.disk[m.view.target])
  BY <1>5, <1>7, <1>8, <1>10, <1>13, <1>16, <1>17, Constants DEF Text
<1>20. "files" \in care /\ ~LiveIs(m, "write") => n.disk[m.view.target] = m.view.write
  BY <1>6, <1>7, <1>8, <1>10, <1>17
<1>21. \A q \in Paths : q # m.view.target => n.disk[q] = m.disk[q]
  BY <1>4, <1>10, <1>17
<1>22. ("handlers" \in care => n.asked = m.asked) /\ n.view.live = 0
  BY <1>4, <1>10, <1>13, <1>16 DEF Beside
<1> QED
  BY <1>4, <1>16, <1>17, <1>18, <1>19, <1>20, <1>21, <1>22

\* cancelAsync amid the signals of the live operation, whose state was taken.
LEMMA AmidFacts ==
    ASSUME "handlers" \notin care, NEW m \in Mains, m.view.live # 0, m.view.live \in DOMAIN m.ops,
           OpsNamed(m), NEW former \in AnyPath, NEW c \in CancelAmid(m, former)
    PROVE  Cancelled(m, c)
<1> DEFINE i == m.view.live
           op == m.ops[i]
           u == UpdateState(m, State(former, op.state.data, op.state.error))
           t == [u EXCEPT !.view.write = Empty]
           out == [op EXCEPT !.cancel = TRUE, !.connected = FALSE]
<1>1. op \in Operations
  BY ElementOfSeq, LenProperties DEF Mains
<1>2. State(former, op.state.data, op.state.error) \in States
  BY <1>1 DEF Operations, State, States
<1>3. u \in Mains /\ Beside(m, u) /\ SameFile(m, u) /\ u.view.live = i
  BY <1>2, UpdateFacts
<1>4. out \in Operations /\ out.phase = op.phase /\ out.state = op.state
  <2>1. out \in Operations
    BY <1>1 DEF Operations
  <2>2. out.phase = op.phase /\ out.state = op.state
    BY <1>1 DEF Operations
  <2> QED
    BY <2>1, <2>2
<1> HIDE DEF u
<1>5. t \in Mains /\ Beside(m, t) /\ SameFile(m, t) /\ t.view.live = i
  <2>1. t \in Mains
    BY <1>3, Constants DEF Mains, Views
  <2>2. Beside(u, t) /\ SameFile(u, t) /\ t.view.live = u.view.live
    BY <1>3 DEF Mains, Views, Beside, SameFile
  <2> QED
    BY <1>3, <2>1, <2>2 DEF Beside, SameFile
<1> HIDE DEF t
<1>6. PICK k : k = IF op.kind = "read" THEN m ELSE t
  OBVIOUS
<1>7. /\ k \in Mains /\ Beside(m, k) /\ SameFile(m, k)
      /\ ~LiveIs(m, "write") => k = m
  BY <1>1, <1>5, <1>6 DEF LiveIs, Operations, Beside, SameFile
<1>8. PICK n : n = WithOp(k, i, out)
  OBVIOUS
<1>9. c = [n EXCEPT !.view.live = 0]
  <2>1. [k EXCEPT !.ops[i].cancel = TRUE, !.ops[i].connected = FALSE, !.view.live = 0]
        = [[k EXCEPT !.ops[i] = [k.ops[i] EXCEPT !.cancel = TRUE, !.connected = FALSE]]
           EXCEPT !.view.live = 0]
    OBVIOUS
  <2>2. c = [k EXCEPT !.ops[i].cancel = TRUE, !.ops[i].connected = FALSE, !.view.live = 0]
    BY <1>6 DEF CancelAmid, t, u
  <2>3. k.ops[i] = op
    BY <1>7 DEF Beside
  <2> HIDE DEF i, op
  <2> QED
    BY <1>8, <2>1, <2>2, <2>3 DEF WithOp
<1>10. /\ n \in Mains
       /\ n.view = k.view /\ n.disk = k.disk /\ n.watcher = k.watcher
       /\ n.notices = k.notices /\ n.asked = k.asked
       /\ DOMAIN n.ops = DOMAIN k.ops /\ n.ops[i] = out
       /\ \A j \in DOMAIN k.ops : j # i => n.ops[j] = k.ops[j]
  <2>1. i \in DOMAIN k.ops
    BY <1>7 DEF Beside
  <2> HIDE DEF out, i
  <2> QED
    BY <1>4, <1>7, <1>8, <2>1, WithOpFacts
<1> HIDE DEF out, op, i
<1>11. c \in Mains
  BY <1>9, <1>10 DEF Mains, Views
<1>12. /\ c.view = [k.view EXCEPT !.live = 0] /\ c.ops = n.ops /\ c.disk = m.disk
       /\ c.watcher = m.watcher /\ c.notices = m.notices /\ c.asked = m.asked
       /\ DOMAIN c.ops = DOMAIN m.ops
  BY <1>7, <1>9, <1>10 DEF Mains, Beside
<1>13. SameFile(m, c) /\ c.view.live = 0
  BY <1>7, <1>12 DEF SameFile, Mains, Views
<1>14. OpsNamed(c)
  <2>1. i \in DOMAIN m.ops /\ (out.phase # "gone" => out.state.path # NoPath)
    BY <1>4 DEF OpsNamed, i, op
  <2> QED
    BY <1>7, <1>10, <1>12, <2>1 DEF OpsNamed, Beside
<1>15. Sound(c)
  BY <1>11, <1>13, <1>14 DEF Sound, LiveIsOpen, PathShown, WritesLive
<1>16. Watches(m) => Watches(c)
  BY <1>12, <1>13 DEF Watches, SameFile
<1> QED
  BY <1>7, <1>12, <1>13, <1>15, <1>16 DEF Cancelled

\* The live operation, which has ended, is let go of.
LEMMA LetGoFacts ==
    ASSUME NEW g \in Mains, PathShown(g), OpsNamed(g),
           "handlers" \in care => \A j \in DOMAIN g.ops : ~Writes(g.ops[j])
    PROVE  LET k == [g EXCEPT !.view.live = 0]
           IN  /\ Sound(k) /\ Beside(g, k) /\ SameFile(g, k)
               /\ k.view.live = 0 /\ k.view.write = g.view.write /\ k.view.path = g.view.path
               /\ k.view.data = g.view.data /\ k.view.prepared = g.view.prepared
<1> DEFINE k == [g EXCEPT !.view.live = 0]
<1>1. k \in Mains
  BY DEF Mains, Views
<1>2. /\ Beside(g, k) /\ SameFile(g, k)
      /\ k.view.live = 0 /\ k.view.write = g.view.write /\ k.view.path = g.view.path
      /\ k.view.data = g.view.data /\ k.view.prepared = g.view.prepared
  BY DEF Mains, Views, Beside, SameFile
<1> HIDE DEF k
<1>3. Sound(k)
  BY <1>1, <1>2
  DEF Sound, LiveIsOpen, PathShown, WritesLive, OpsNamed, Beside, SameFile
<1> QED
  BY <1>2, <1>3 DEF k

\* Handlers that set a text leave a sound view that waits for nothing.
LEMMA HandlersFacts ==
    ASSUME NEW m \in Mains, m.view.live # 0, m.view.live \in DOMAIN m.ops,
           m.view.target # NoPath, PathShown(m), OpsNamed(m),
           "handlers" \in care => \A j \in DOMAIN m.ops : ~Writes(m.ops[j]),
           NEW former \in AnyPath, NEW h \in Handlers(m, former)
    PROVE  /\ Sound(h) /\ h.view.live = 0 /\ SameFile(m, h)
           /\ DOMAIN m.ops \subseteq DOMAIN h.ops
           /\ Watches(m) => Watches(h)
           /\ \A q \in Paths : q # m.view.target => h.disk[q] = m.disk[q]
           /\ "handlers" \in care =>
                  /\ Beside(m, h) /\ h.view.write = m.view.write /\ h.view.path = m.view.path
                  /\ h.view.data = m.view.data /\ h.view.prepared = m.view.prepared
<1>1. PICK g : /\ h = [g EXCEPT !.view.live = 0]
               /\ \/ g = m
                  \/ /\ "handlers" \notin care
                     /\ \E t \in Texts : g \in SetAfter(m, t, CancelAmid(ToWrite(m, t), former))
  BY DEF Handlers
<1>2. CASE g = m
  <2>1. /\ Sound(h) /\ Beside(m, h) /\ SameFile(m, h)
        /\ h.view.live = 0 /\ h.view.write = m.view.write /\ h.view.path = m.view.path
        /\ h.view.data = m.view.data /\ h.view.prepared = m.view.prepared
    BY <1>1, <1>2, LetGoFacts
  <2> QED
    BY <2>1 DEF Beside, SameFile, Watches
<1>3. CASE /\ "handlers" \notin care
           /\ \E t \in Texts : g \in SetAfter(m, t, CancelAmid(ToWrite(m, t), former))
  <2>1. PICK t \in Texts : g \in SetAfter(m, t, CancelAmid(ToWrite(m, t), former))
    BY <1>3
  <2>2. PICK history : /\ history = IF m.view.target = NoPath \/ "files" \notin care THEN m.asked
                                     ELSE [m.asked EXCEPT ![m.view.target] = t]
    OBVIOUS
  <2>3. history \in [Paths -> Texts \cup {NoText}]
    BY <2>2 DEF Mains, Views, AnyPath
  <2>4. PICK n : n = [m EXCEPT !.view.write = t, !.asked = history]
    OBVIOUS
  <2>5. PICK a : a = [m EXCEPT !.asked = history]
    OBVIOUS
  <2>14. n = ToWrite(m, t) /\ n.asked = history
    BY <2>2, <2>4 DEF ToWrite, Mains
  <2>6. \/ g = a
        \/ g \in SaveAsync(n, CancelAmid(n, former))
        \/ g \in SaveSync(n, CancelAmid(n, former))
    BY <2>1, <2>5, <2>14 DEF SetAfter
  <2>7. /\ a \in Mains /\ a.view = m.view /\ a.ops = m.ops /\ a.disk = m.disk
        /\ a.watcher = m.watcher /\ a.notices = m.notices
    <3>1. a \in Mains
      BY <2>3, <2>5 DEF Mains
    <3>2. /\ a.view = m.view /\ a.ops = m.ops /\ a.disk = m.disk
          /\ a.watcher = m.watcher /\ a.notices = m.notices
      BY <2>5 DEF Mains
    <3> QED
      BY <3>1, <3>2
  <2>8. /\ n \in Mains /\ n.ops = m.ops /\ n.disk = m.disk
        /\ n.watcher = m.watcher /\ n.notices = m.notices
        /\ SameFile(m, n) /\ n.view.live = m.view.live
    <3>1. n \in Mains
      BY <2>3, <2>4 DEF Mains, Views
    <3>2. /\ n.ops = m.ops /\ n.disk = m.disk
          /\ n.watcher = m.watcher /\ n.notices = m.notices
          /\ SameFile(m, n) /\ n.view.live = m.view.live
      BY <2>4 DEF Mains, Views, SameFile
    <3> QED
      BY <3>1, <3>2
  <2>9. \A c \in CancelAmid(n, former) : Cancelled(n, c)
    <3>1. OpsNamed(n) /\ n.view.live # 0 /\ n.view.live \in DOMAIN n.ops
      BY <2>8 DEF OpsNamed
    <3> QED
      BY <1>3, <2>8, <3>1, AmidFacts
  <2>10. n.view.target # NoPath /\ n.view.target = m.view.target
    BY <2>8 DEF SameFile
  <2>11. /\ g \in Mains /\ OpsNamed(g) /\ SameFile(m, g) /\ DOMAIN m.ops \subseteq DOMAIN g.ops
         /\ Watches(m) => Watches(g)
         /\ \A q \in Paths : q # m.view.target => g.disk[q] = m.disk[q]
    <3>1. CASE g = a
      BY <2>7, <3>1 DEF OpsNamed, SameFile, Watches
    <3>2. Watches(m) => Watches(n)
      BY <2>8 DEF Watches, SameFile
    <3>3. CASE g \in SaveAsync(n, CancelAmid(n, former))
      <4>1. /\ Sound(g) /\ SameFile(n, g) /\ DOMAIN n.ops \subseteq DOMAIN g.ops
            /\ Watches(n) => Watches(g)
            /\ \A q \in Paths : q # n.view.target => g.disk[q] = n.disk[q]
        <5>1. PICK cs : cs = CancelAmid(n, former)
          OBVIOUS
        <5> QED
          BY <2>8, <2>9, <2>10, <3>3, <5>1, SaveAsyncFacts
      <4> QED
        BY <2>8, <2>10, <3>2, <4>1 DEF Sound, SameFile
    <3>4. CASE g \in SaveSync(n, CancelAmid(n, former))
      <4>1. /\ Sound(g) /\ SameFile(n, g) /\ DOMAIN n.ops \subseteq DOMAIN g.ops
            /\ Watches(n) => Watches(g)
            /\ \A q \in Paths : q # n.view.target => g.disk[q] = n.disk[q]
        <5>1. PICK cs : cs = CancelAmid(n, former)
          OBVIOUS
        <5> QED
          BY <2>8, <2>9, <2>10, <3>4, <5>1, SaveSyncFacts
      <4> QED
        BY <2>8, <2>10, <3>2, <4>1 DEF Sound, SameFile
    <3> QED
      BY <2>6, <3>1, <3>3, <3>4
  <2>12. /\ Sound(h) /\ Beside(g, h) /\ SameFile(g, h) /\ h.view.live = 0
    BY <1>1, <1>3, <2>11, LetGoFacts DEF PathShown
  <2> QED
    BY <1>3, <2>11, <2>12 DEF Beside, SameFile, Watches
<1> QED
  BY <1>1, <1>2, <1>3

\* What is waited for is taken.
LEMMA WaitFacts ==
    ASSUME NEW m \in Mains, m.view.live \in DOMAIN m.ops, m.view.live # 0,
           m.ops[m.view.live].state.path = m.view.target, m.view.target # NoPath,
           OpsNamed(m), WritesLive(m),
           NEW w \in WaitForJob(m)
    PROVE  LET i == m.view.live
               op == m.ops[i]
           IN  /\ Sound(w) /\ SameFile(m, w) /\ w.view.live = 0
               /\ DOMAIN m.ops \subseteq DOMAIN w.ops
               /\ \A q \in Paths : q # m.view.target => w.disk[q] = m.disk[q]
               /\ Watches(m) => Watches(w)
               /\ "handlers" \in care =>
                    /\ w.asked = m.asked /\ w.view.write = Empty
                    /\ op.kind = "write" => w.view.data = op.state.data
                    /\ op.kind = "read" => w.disk = m.disk
                    /\ /\ "files" \in care /\ ~op.cancel
                       /\ op.phase = "ended" => op.state.data = Text(m.disk[m.view.target])
                       => w.view.data = Text(w.disk[m.view.target])
<1> DEFINE i == m.view.live
           op == m.ops[i]
           Waited(r) == [Leave(m, op, r) EXCEPT !.ops[i].phase = "ended",
                                                !.ops[i].connected = FALSE,
                                                !.ops[i].state = r.state]
<1>1. PICK r \in Ends(m, op) : w \in Handlers(TakeState(Waited(r)), m.view.path)
  BY DEF WaitForJob
<1>2. /\ op \in Operations /\ op.state.path = m.view.target /\ op.state.path \in Paths
      /\ op.state.data \in Texts
  <2>1. op \in Operations
    BY ElementOfSeq, LenProperties DEF Mains
  <2> QED
    BY <2>1 DEF Mains, Views, AnyPath, Operations, States
<1>3. PICK l : l = Leave(m, op, r)
  OBVIOUS
<1>4. /\ l \in Mains
      /\ l.view = m.view /\ l.ops = m.ops /\ l.asked = m.asked
      /\ \A q \in Paths : q # op.state.path => l.disk[q] = m.disk[q]
      /\ op.kind = "read" \/ op.phase = "ended" => l = m
      /\ op.kind = "write" /\ op.phase # "ended" /\ r.content = op.state.data
         => l.disk[op.state.path] = op.state.data
      /\ Watches(m) => Watches(l)
      /\ m.notices \subseteq l.notices
  BY <1>2, <1>3, LeaveFacts
<1>5. /\ r.state \in States /\ r.content \in Contents
      /\ r.state.path = op.state.path
      /\ op.phase = "ended" => r.state = op.state
      /\ op.kind = "write" => r.state.data = op.state.data
      /\ op.kind = "read" /\ op.phase # "ended" => r.state.data = Text(m.disk[op.state.path])
      /\ "files" \in care /\ op.kind = "write" /\ op.phase # "ended" /\ ~op.cancel =>
             r.content = op.state.data
  BY <1>2, EndsFacts
<1> HIDE DEF i
<1> DEFINE opNow == [op EXCEPT !.phase = "ended", !.connected = FALSE, !.state = r.state]
           opsNow == [m.ops EXCEPT ![i] = opNow]
<1>6. /\ opNow \in Operations
      /\ opNow.phase = "ended" /\ opNow.state = r.state /\ opNow.kind = op.kind
  <2>1. opNow \in Operations
    BY <1>2, <1>5 DEF Operations, Phases
  <2>2. opNow.phase = "ended" /\ opNow.state = r.state /\ opNow.kind = op.kind
    BY <1>2 DEF Operations
  <2> QED
    BY <2>1, <2>2
<1> HIDE DEF opNow, op
<1>7. /\ opsNow \in Seq(Operations) /\ DOMAIN opsNow = DOMAIN m.ops
      /\ opsNow[i] = opNow /\ \A j \in DOMAIN m.ops : j # i => opsNow[j] = m.ops[j]
  <2>1. m.ops \in Seq(Operations) /\ i \in DOMAIN m.ops
    BY DEF Mains, i
  <2> QED
    BY <1>6, <2>1, OpsExcept
<1>8. PICK x : x = Waited(r)
  OBVIOUS
<1>9. x = [l EXCEPT !.ops = opsNow]
  <2>1. [l EXCEPT !.ops[i].phase = "ended", !.ops[i].connected = FALSE, !.ops[i].state = r.state]
        = [l EXCEPT !.ops = [l.ops EXCEPT ![i] =
               [l.ops[i] EXCEPT !.phase = "ended", !.connected = FALSE, !.state = r.state]]]
    OBVIOUS
  <2>2. x = [l EXCEPT !.ops[i].phase = "ended", !.ops[i].connected = FALSE,
                      !.ops[i].state = r.state]
    BY <1>3, <1>8
  <2> QED
    BY <1>4, <2>1, <2>2 DEF opNow, op
<1> HIDE DEF opsNow, Waited
<1>10. /\ x \in Mains
       /\ x.view = m.view /\ x.ops = opsNow /\ x.asked = m.asked /\ x.disk = l.disk
       /\ x.watcher = l.watcher /\ x.notices = l.notices
  <2>1. x \in Mains
    BY <1>4, <1>7, <1>9 DEF Mains
  <2>2. /\ x.view = m.view /\ x.ops = opsNow /\ x.asked = m.asked /\ x.disk = l.disk
        /\ x.watcher = l.watcher /\ x.notices = l.notices
    BY <1>4, <1>9 DEF Mains
  <2> QED
    BY <2>1, <2>2
<1>11. PICK t : t = TakeState(x)
  OBVIOUS
<1>12. /\ t \in Mains /\ Beside(x, t) /\ SameFile(x, t)
       /\ t.view.live = x.view.live /\ t.view.write = Empty
       /\ t.view.path = r.state.path /\ t.view.data = r.state.data /\ t.view.prepared = TRUE
  <2>1. x.view.live \in DOMAIN x.ops /\ x.ops[x.view.live].state = r.state
    BY <1>6, <1>7, <1>10 DEF i
  <2> QED
    BY <1>10, <1>11, <2>1, TakeFacts
<1>13. w \in Handlers(t, m.view.path) /\ m.view.path \in AnyPath
  BY <1>1, <1>8, <1>11 DEF Waited, op, i, Mains, Views
<1>14. /\ t.ops = opsNow /\ t.disk = l.disk /\ t.notices = l.notices /\ t.watcher = l.watcher
       /\ t.asked = m.asked /\ SameFile(m, t) /\ t.view.live = i
  BY <1>10, <1>12 DEF Beside, SameFile, i
<1>15. PathShown(t) /\ OpsNamed(t) /\ t.view.target # NoPath /\ i # 0 /\ i \in DOMAIN t.ops
  <2>1. t.view.path = m.view.target /\ t.view.target = m.view.target
    BY <1>2, <1>5, <1>12, <1>14 DEF SameFile
  <2>2. \A j \in DOMAIN opsNow : opsNow[j].phase # "gone" => opsNow[j].state.path # NoPath
    BY <1>2, <1>5, <1>6, <1>7 DEF OpsNamed
  <2> QED
    BY <1>7, <1>14, <2>1, <2>2 DEF PathShown, OpsNamed, i
<1>16. /\ Sound(w) /\ w.view.live = 0 /\ SameFile(t, w)
       /\ DOMAIN t.ops \subseteq DOMAIN w.ops
       /\ Watches(t) => Watches(w)
       /\ \A q \in Paths : q # t.view.target => w.disk[q] = t.disk[q]
       /\ "handlers" \in care =>
              Beside(t, w) /\ w.view.write = Empty /\ w.view.data = r.state.data
  <2>1. "handlers" \in care => \A j \in DOMAIN t.ops : ~Writes(t.ops[j])
    BY <1>6, <1>7, <1>14 DEF WritesLive, Writes, i
  <2>2. t \in Mains /\ t.view.live # 0 /\ t.view.live \in DOMAIN t.ops
    BY <1>12, <1>14, <1>15
  <2> QED
    BY <1>12, <1>13, <1>15, <2>1, <2>2, HandlersFacts
<1>17. ASSUME "handlers" \in care, "files" \in care, ~op.cancel,
              op.phase = "ended" => op.state.data = Text(m.disk[m.view.target])
       PROVE  w.view.data = Text(w.disk[m.view.target])
  <2>0. w.disk = l.disk /\ w.view.data = r.state.data
    BY <1>14, <1>16, <1>17 DEF Beside
  <2>1. Text(op.state.data) = op.state.data
    BY <1>2, Constants DEF Text
  <2>2. CASE op.phase = "ended"
    BY <1>2, <1>4, <1>5, <1>17, <2>0, <2>2
  <2>3. CASE op.phase # "ended" /\ op.kind = "read"
    BY <1>2, <1>4, <1>5, <2>0, <2>3
  <2>4. CASE op.phase # "ended" /\ op.kind = "write"
    BY <1>2, <1>4, <1>5, <1>17, <2>0, <2>1, <2>4
  <2> QED
    BY <1>2, <2>2, <2>3, <2>4 DEF Operations
<1>18. /\ SameFile(m, w) /\ DOMAIN m.ops \subseteq DOMAIN w.ops
       /\ \A q \in Paths : q # m.view.target => w.disk[q] = m.disk[q]
  BY <1>2, <1>4, <1>7, <1>14, <1>16 DEF SameFile
<1>19. Watches(m) => Watches(w)
  <2>1. Watches(l) => Watches(t)
    BY <1>4, <1>14 DEF Watches, SameFile
  <2> QED
    BY <1>4, <1>16, <2>1
<1>20. ASSUME "handlers" \in care
       PROVE  /\ w.asked = m.asked /\ w.view.write = Empty
              /\ op.kind = "write" => w.view.data = op.state.data
              /\ op.kind = "read" => w.disk = m.disk
  BY <1>4, <1>5, <1>14, <1>16, <1>20 DEF Beside
<1> QED
  BY <1>16, <1>17, <1>18, <1>19, <1>20 DEF i, op

LEMMA CancelFacts ==
    ASSUME NEW m, Sound(m), NEW c \in CancelAsync(m)
    PROVE  Cancelled(m, c)
<1> DEFINE i == m.view.live
           op == m.ops[i]
<1>1. m \in Mains
  BY DEF Sound
<1>2. CASE m.view.live = 0
  <2>1. c = m /\ ~LiveIs(m, "write")
    BY <1>2 DEF CancelAsync, LiveIs
  <2>2. m.view \in Views
    BY <1>1 DEF Mains
  <2>3. m.view = [m.view EXCEPT !.live = 0]
    BY <1>2, <2>2 DEF Views
  <2> QED
    BY <1>2, <2>1, <2>3 DEF SameFile, Cancelled
<1>3. ASSUME m.view.live # 0
      PROVE  /\ i \in DOMAIN m.ops /\ op \in Operations /\ op.state.path = m.view.target
             /\ m.view.target # NoPath
             /\ "handlers" \in care => \A j \in DOMAIN m.ops : Writes(m.ops[j]) => j = i
  <2>1. i \in DOMAIN m.ops /\ op.state.path = m.view.target /\ m.view.target # NoPath
    BY <1>3 DEF Sound, LiveIsOpen
  <2>2. op \in Operations
    BY <1>1, <2>1, ElementOfSeq, LenProperties DEF Mains
  <2>3. "handlers" \in care => \A j \in DOMAIN m.ops : Writes(m.ops[j]) => j = i
    BY DEF Sound, WritesLive
  <2> QED
    BY <2>1, <2>2, <2>3
<1>4. CASE m.view.live # 0 /\ LiveIs(m, "read")
  <2> DEFINE out == [op EXCEPT !.cancel = TRUE, !.connected = FALSE]
             n == WithOp(m, i, out)
  <2>1. c = [m EXCEPT !.ops[i].cancel = TRUE, !.ops[i].connected = FALSE, !.view.live = 0]
    BY <1>4 DEF CancelAsync
  <2>2. op.kind = "read" /\ ~LiveIs(m, "write")
    BY <1>4 DEF LiveIs
  <2>3. /\ out \in Operations
        /\ out.kind = "read" /\ out.phase = op.phase /\ out.state = op.state
    <3>1. out \in Operations
      BY <1>3, <1>4 DEF Operations
    <3>2. out.kind = "read" /\ out.phase = op.phase /\ out.state = op.state
      BY <1>3, <1>4, <2>2 DEF Operations
    <3> QED
      BY <3>1, <3>2
  <2>4. [m EXCEPT !.ops[i].cancel = TRUE, !.ops[i].connected = FALSE, !.view.live = 0]
        = [[m EXCEPT !.ops[i] = out] EXCEPT !.view.live = 0]
    OBVIOUS
  <2>5. c = [n EXCEPT !.view.live = 0]
    BY <2>1, <2>4 DEF WithOp
  <2> HIDE DEF out, op, i
  <2>6. /\ n \in Mains
        /\ n.view = m.view /\ n.disk = m.disk /\ n.watcher = m.watcher
        /\ n.notices = m.notices /\ n.asked = m.asked
        /\ DOMAIN n.ops = DOMAIN m.ops /\ n.ops[i] = out
        /\ \A j \in DOMAIN m.ops : j # i => n.ops[j] = m.ops[j]
    BY <1>1, <1>3, <1>4, <2>3, WithOpFacts
  <2> HIDE DEF n
  <2>7. c \in Mains
    BY <2>5, <2>6 DEF Mains, Views
  <2>8. /\ c.view = [m.view EXCEPT !.live = 0] /\ c.ops = n.ops /\ c.disk = m.disk
        /\ c.watcher = m.watcher /\ c.notices = m.notices /\ c.asked = m.asked
    BY <2>5, <2>6 DEF Mains
  <2>9. /\ SameFile(m, c) /\ c.view.live = 0 /\ c.view.path = m.view.path
        /\ c.view.prepared = m.view.prepared
    BY <1>1, <2>8 DEF SameFile, Mains, Views
  <2>10. Sound(c)
    <3>1. LiveIsOpen(c) /\ PathShown(c)
      BY <2>9 DEF LiveIsOpen, PathShown, SameFile, Sound
    <3>2. WritesLive(c)
      BY <1>3, <1>4, <2>3, <2>6, <2>8 DEF WritesLive, Writes
    <3>3. OpsNamed(c)
      BY <1>3, <1>4, <2>3, <2>6, <2>8 DEF OpsNamed, Sound, op
    <3> QED
      BY <2>7, <3>1, <3>2, <3>3 DEF Sound
  <2>11. Watches(m) => Watches(c)
    BY <2>8, <2>9 DEF Watches, SameFile
  <2> QED
    BY <2>2, <2>6, <2>8, <2>9, <2>10, <2>11 DEF Cancelled
<1>5. CASE m.view.live # 0 /\ ~LiveIs(m, "read")
  <2> DEFINE out == [op EXCEPT !.cancel = TRUE]
             n == WithOp(m, i, out)
  <2>1. c \in WaitForJob([m EXCEPT !.ops[i].cancel = TRUE])
    BY <1>5 DEF CancelAsync
  <2>2. op.kind = "write" /\ LiveIs(m, "write")
    BY <1>3, <1>5 DEF LiveIs, Operations
  <2>3. /\ out \in Operations
        /\ out.kind = "write" /\ out.phase = op.phase /\ out.state = op.state
    <3>1. out \in Operations
      BY <1>3, <1>5 DEF Operations
    <3>2. out.kind = "write" /\ out.phase = op.phase /\ out.state = op.state
      BY <1>3, <1>5, <2>2 DEF Operations
    <3> QED
      BY <3>1, <3>2
  <2>4. [m EXCEPT !.ops[i].cancel = TRUE] = [m EXCEPT !.ops[i] = out]
    OBVIOUS
  <2>5. c \in WaitForJob(n)
    BY <2>1, <2>4 DEF WithOp
  <2> HIDE DEF out, op, i
  <2>6. /\ n \in Mains
        /\ n.view = m.view /\ n.disk = m.disk /\ n.watcher = m.watcher
        /\ n.notices = m.notices /\ n.asked = m.asked
        /\ DOMAIN n.ops = DOMAIN m.ops /\ n.ops[i] = out
        /\ \A j \in DOMAIN m.ops : j # i => n.ops[j] = m.ops[j]
    BY <1>1, <1>3, <1>5, <2>3, WithOpFacts
  <2> HIDE DEF n
  <2>7. /\ n.view.live = i /\ i # 0 /\ i \in DOMAIN n.ops
        /\ n.ops[i].state.path = n.view.target /\ n.view.target # NoPath
    BY <1>3, <1>5, <2>3, <2>6 DEF i
  <2>8. OpsNamed(n) /\ WritesLive(n)
    BY <1>3, <1>5, <2>3, <2>6, <2>7 DEF Sound, OpsNamed, WritesLive, Writes, op
  <2>9. /\ Sound(c) /\ SameFile(n, c) /\ c.view.live = 0
        /\ DOMAIN n.ops \subseteq DOMAIN c.ops
        /\ \A q \in Paths : q # n.view.target => c.disk[q] = n.disk[q]
        /\ Watches(n) => Watches(c)
        /\ "handlers" \in care => c.asked = n.asked /\ c.view.write = Empty
    BY <2>5, <2>6, <2>7, <2>8, WaitFacts
  <2>10. SameFile(m, c) /\ (Watches(m) => Watches(c))
    BY <2>6, <2>9 DEF SameFile, Watches
  <2> QED
    BY <2>2, <2>6, <2>9, <2>10 DEF Cancelled
<1> QED
  BY <1>2, <1>4, <1>5

LEMMA SoundLive ==
    ASSUME NEW m, Sound(m), m.view.live # 0
    PROVE  LET op == m.ops[m.view.live]
           IN  /\ m.view.live \in DOMAIN m.ops /\ op \in Operations
               /\ op.state.path = m.view.target /\ m.view.target \in Paths
               /\ op.connected /\ ~op.cancel /\ op.phase # "gone"
               /\ op.kind \in {"read", "write"} /\ op.state.data \in Texts
<1>1. /\ m.view.live \in DOMAIN m.ops /\ m.ops[m.view.live].state.path = m.view.target
      /\ m.view.target # NoPath
      /\ m.ops[m.view.live].connected /\ ~m.ops[m.view.live].cancel
      /\ m.ops[m.view.live].phase # "gone"
  BY DEF Sound, LiveIsOpen
<1>2. m.ops[m.view.live] \in Operations
  BY <1>1, ElementOfSeq, LenProperties DEF Sound, Mains
<1> QED
  BY <1>1, <1>2 DEF Sound, Mains, Views, AnyPath, Operations, States

\* Waiting keeps what is known.
LEMMA WaitGood ==
    ASSUME NEW m, NEW e, Good(m, e), m.view.live # 0, NEW w \in WaitForJob(m)
    PROVE  /\ Good(w, e) /\ w.view.live = 0 /\ SameFile(m, w)
           /\ Watches(m) => Watches(w)
<1> DEFINE i == m.view.live
           op == m.ops[i]
<1>1. Sound(m) /\ m \in Mains
  BY DEF Good, Sound
<1>2. /\ i \in DOMAIN m.ops /\ op \in Operations
      /\ op.state.path = m.view.target /\ m.view.target \in Paths /\ m.view.target # NoPath
      /\ ~op.cancel /\ op.kind \in {"read", "write"} /\ op.state.data \in Texts
  BY <1>1, SoundLive, Constants
<1>3. /\ Sound(w) /\ SameFile(m, w) /\ w.view.live = 0
      /\ \A q \in Paths : q # m.view.target => w.disk[q] = m.disk[q]
      /\ Watches(m) => Watches(w)
      /\ "handlers" \in care =>
           /\ w.asked = m.asked /\ w.view.write = Empty
           /\ op.kind = "write" => w.view.data = op.state.data
           /\ op.kind = "read" => w.disk = m.disk
           /\ /\ "files" \in care /\ ~op.cancel
              /\ op.phase = "ended" => op.state.data = Text(m.disk[m.view.target])
              => w.view.data = Text(w.disk[m.view.target])
  <2>1. OpsNamed(m) /\ WritesLive(m)
    BY <1>1 DEF Sound
  <2> QED
    BY <1>1, <1>2, <2>1, WaitFacts
<1> HIDE DEF i, op
<1>5. Trusted => w.view.data = Text(w.disk[m.view.target])
  <2>1. Trusted /\ op.phase = "ended" => op.state.data = Text(m.disk[m.view.target])
    BY DEF Good, Shown, i, op
  <2> QED
    BY <1>2, <1>3, <2>1 DEF Trusted
<1>6. Trusted => Shown(w, e)
  BY <1>3, <1>5 DEF Shown, LiveIs, SameFile
<1>7. ASSUME care = Cares
      PROVE  Recorded(w)
  <2>1. Recorded(m) /\ Trusted /\ "handlers" \in care
    BY <1>7 DEF Good, Trusted, Cares
  <2>2. ~LiveIs(w, "write") /\ w.view.write = Empty
    BY <1>3, <2>1 DEF LiveIs
  <2>3. ASSUME NEW p \in Paths, w.asked[p] # NoText
        PROVE  Text(w.disk[p]) = w.asked[p]
    <3>1. CASE LiveIs(m, "write") /\ p = m.view.target
      BY <1>3, <1>5, <2>1, <3>1 DEF Recorded, LiveIs, i, op
    <3>2. CASE LiveIs(m, "write") /\ p # m.view.target
      BY <1>3, <2>1, <2>3, <3>2 DEF Recorded
    <3>3. CASE ~LiveIs(m, "write")
      <4>1. op.kind = "read"
        BY <1>2, <3>3 DEF LiveIs, i, op
      <4> QED
        BY <1>3, <2>1, <2>3, <3>3, <4>1 DEF Recorded
    <3> QED
      BY <3>1, <3>2, <3>3
  <2> QED
    BY <2>2, <2>3 DEF Recorded
<1> QED
  BY <1>3, <1>6, <1>7 DEF Good

\* Nothing is known of a view that shows the empty path but its types.
LEMMA UpdateGood ==
    ASSUME NEW m, NEW e, Good(m, e), m.view.live = 0, NEW state \in States,
           state.path = m.view.target,
           m.view.target # NoPath => state.data = Text(m.disk[m.view.target])
    PROVE  LET n == UpdateState(m, state)
           IN  /\ Good(n, e) /\ n.view.live = 0 /\ SameFile(m, n)
               /\ Watches(m) => Watches(n)
<1> DEFINE n == UpdateState(m, state)
<1>1. m \in Mains
  BY DEF Good, Sound
<1>2. /\ n \in Mains /\ Beside(m, n) /\ SameFile(m, n)
      /\ n.view.live = m.view.live /\ n.view.write = m.view.write
      /\ n.view.path = state.path /\ n.view.data = state.data /\ n.view.prepared = TRUE
  BY <1>1, UpdateFacts
<1> HIDE DEF n
<1>3. Sound(n)
  <2>1. Sound(m)
    BY DEF Good
  <2>2. LiveIsOpen(n) /\ PathShown(n)
    BY <1>2 DEF LiveIsOpen, PathShown, SameFile
  <2>3. WritesLive(n) /\ OpsNamed(n)
    BY <1>2, <2>1 DEF WritesLive, OpsNamed, Sound, Beside
  <2> QED
    BY <1>2, <2>2, <2>3 DEF Sound
<1>4. Shown(n, e)
  BY <1>2 DEF Shown, LiveIs, SameFile, Beside
<1>5. care = Cares => Recorded(n)
  BY <1>2 DEF Good, Recorded, LiveIs, Beside
<1>6. Watches(m) => Watches(n)
  BY <1>2 DEF Watches, SameFile, Beside
<1> QED
  BY <1>2, <1>3, <1>4, <1>5, <1>6 DEF Good, n

\* loadAsync of a view that is not prepared: what was under way is only
\* cancelled if it is of another file.
LEMMA LoadAsyncGood ==
    ASSUME NEW m, NEW e, Good(m, e), ~m.view.prepared,
           Trusted => InFlight(m) \/ m.view.live = 0,
           NEW n \in LoadAsync(m)
    PROVE  /\ Good(n, e) /\ InFlight(n)
           /\ n.view.target = m.view.target /\ n.view.watch = m.view.watch
           /\ Watches(m) => Watches(n)
           /\ Trusted => ~n.view.prepared \/ n.view.target = NoPath
<1>1. CASE m.view.live # 0 /\ m.view.inFlight = m.view.target
  <2>1. n = m
    BY <1>1 DEF LoadAsync
  <2> QED
    BY <1>1, <2>1 DEF InFlight
<1>2. CASE ~(m.view.live # 0 /\ m.view.inFlight = m.view.target)
  <2>1. Sound(m) /\ m \in Mains /\ m.view.target \in AnyPath
    BY DEF Good, Sound, Mains, Views
  <2>2. PICK c \in CancelAsync(m) :
            n = LET k == [c EXCEPT !.view.inFlight = m.view.target]
                IN  IF m.view.target = NoPath THEN UpdateState(k, State(NoPath, Empty, FALSE))
                    ELSE Start(k, "read", Empty, FALSE)
    BY <1>2 DEF LoadAsync
  <2>3. /\ Sound(c) /\ c.view.live = 0
        /\ SameFile(m, c)
        /\ Watches(m) => Watches(c)
        /\ ~LiveIs(m, "write") => c.view = [m.view EXCEPT !.live = 0] /\ c.disk = m.disk
    BY <2>1, CancelFacts DEF Cancelled
  <2>4. Trusted => m.view.live = 0 /\ c = m
    <3>1. Trusted => m.view.live = 0
      BY <1>2, <2>1, SoundLive, Constants DEF InFlight
    <3> QED
      BY <3>1 DEF CancelAsync
  <2>5. PICK k : k = [c EXCEPT !.view.inFlight = m.view.target]
    OBVIOUS
  <2>6. /\ k \in Mains
        /\ Beside(c, k) /\ k.view.target = m.view.target /\ k.view.inFlight = m.view.target
        /\ k.view.watch = m.view.watch /\ k.view.live = 0 /\ k.view.path = c.view.path
        /\ k.view.write = c.view.write /\ k.view.data = c.view.data
        /\ k.view.prepared = c.view.prepared
    <3>1. c \in Mains
      BY <2>3 DEF Sound
    <3>2. k \in Mains
      BY <2>1, <2>5, <3>1 DEF Mains, Views
    <3>3. /\ Beside(c, k) /\ k.view.inFlight = m.view.target
          /\ k.view.target = c.view.target
          /\ k.view.watch = c.view.watch /\ k.view.live = c.view.live
          /\ k.view.path = c.view.path
          /\ k.view.write = c.view.write /\ k.view.data = c.view.data
          /\ k.view.prepared = c.view.prepared
      BY <2>5, <3>1 DEF Mains, Views, Beside
    <3> QED
      BY <2>3, <3>2, <3>3 DEF SameFile
  <2>7. Good(k, e) /\ (Watches(m) => Watches(k))
    <3>1. Sound(k)
      BY <2>3, <2>6 DEF Sound, LiveIsOpen, PathShown, WritesLive, OpsNamed, Beside, SameFile
    <3>2. Trusted => Shown(k, e)
      BY <2>4, <2>6 DEF Shown, LiveIs
    <3>3. care = Cares => Recorded(k)
      <4>1. care = Cares => Trusted
        BY DEF Cares, Trusted
      <4> QED
        BY <2>4, <2>6, <4>1 DEF Good, Recorded, LiveIs, Beside
    <3>4. Watches(m) => Watches(k)
      BY <2>3, <2>6 DEF Watches, Beside, SameFile
    <3> QED
      BY <3>1, <3>2, <3>3, <3>4 DEF Good
  <2>8. CASE m.view.target = NoPath
    <3>1. n = UpdateState(k, State(NoPath, Empty, FALSE))
      BY <2>2, <2>5, <2>8
    <3>2. State(NoPath, Empty, FALSE) \in States /\ State(NoPath, Empty, FALSE).path = NoPath
      BY Constants DEF State, States, AnyPath
    <3>3. Good(n, e) /\ SameFile(k, n) /\ (Watches(k) => Watches(n))
      BY <2>6, <2>7, <2>8, <3>1, <3>2, UpdateGood
    <3> QED
      BY <2>6, <2>7, <2>8, <3>3 DEF SameFile, InFlight
  <2>9. CASE m.view.target # NoPath
    <3>1. n = Start(k, "read", Empty, FALSE)
      BY <2>2, <2>5, <2>9
    <3>2. /\ Sound(n) /\ n.view.live # 0
          /\ n.view = [k.view EXCEPT !.live = n.view.live]
          /\ n.ops[n.view.live] = Operation("read", k.view.target, Empty, FALSE)
          /\ n.disk = k.disk /\ n.watcher = k.watcher /\ n.notices = k.notices
          /\ n.asked = k.asked
      <4>1. Sound(k)
        BY <2>7 DEF Good
      <4>2. k.view.live = 0 /\ k.view.target # NoPath /\ Empty \in Texts
        BY <2>6, <2>9, Constants
      <4>3. "read" \in {"read", "write"} /\ FALSE \in BOOLEAN
        OBVIOUS
      <4> QED
        BY <3>1, <4>1, <4>2, <4>3, StartFacts
    <3>3. /\ SameFile(k, n) /\ n.view.prepared = k.view.prepared /\ n.view.write = k.view.write
      BY <2>6, <3>2 DEF SameFile, Mains, Views
    <3>4. n.ops[n.view.live].kind = "read" /\ n.ops[n.view.live].phase = "queued"
      BY <3>2 DEF Operation
    <3>5. Trusted => ~n.view.prepared
      BY <2>4, <2>6, <3>3
    <3>6. Trusted => Shown(n, e)
      BY <3>2, <3>4, <3>5 DEF Shown, LiveIs
    <3>7. care = Cares => Recorded(n)
      <4>1. ~LiveIs(n, "write") /\ ~LiveIs(k, "write")
        BY <2>6, <3>4 DEF LiveIs
      <4> QED
        BY <2>7, <3>2, <3>3, <4>1 DEF Recorded, Good
    <3>8. Watches(k) => Watches(n)
      BY <3>2, <3>3 DEF Watches, SameFile
    <3> QED
      BY <2>6, <2>7, <3>2, <3>3, <3>5, <3>6, <3>7, <3>8 DEF Good, SameFile, InFlight
  <2> QED
    BY <2>8, <2>9
<1> QED
  BY <1>1, <1>2

LEMMA LoadSyncGood ==
    ASSUME NEW m, NEW e, Good(m, e), NEW n \in LoadSync(m)
    PROVE  /\ Good(n, e) /\ SameFile(m, n)
           /\ Watches(m) => Watches(n)
<1>1. Sound(m) /\ m \in Mains /\ m.view.target \in AnyPath
  BY DEF Good, Sound, Mains, Views
<1>2. CASE m.view.target = NoPath
  <2>1. n = UpdateState(m, State(NoPath, Empty, FALSE)) /\ m.view.live = 0
    BY <1>1, <1>2, SoundLive, Constants DEF LoadSync
  <2>2. State(NoPath, Empty, FALSE) \in States /\ State(NoPath, Empty, FALSE).path = NoPath
    BY Constants DEF State, States, AnyPath
  <2> QED
    BY <1>2, <2>1, <2>2, UpdateGood
<1>3. CASE m.view.target # NoPath /\ m.view.live # 0
  <2>1. n \in WaitForJob(m)
    BY <1>3 DEF LoadSync
  <2> QED
    BY <1>3, <2>1, WaitGood
<1>4. CASE m.view.target # NoPath /\ m.view.live = 0
  <2>1. n = UpdateState(m, Read(m, m.view.target)) /\ m.view.target \in Paths
    BY <1>1, <1>4 DEF LoadSync, AnyPath
  <2>2. /\ Read(m, m.view.target) \in States
        /\ Read(m, m.view.target).path = m.view.target
        /\ Read(m, m.view.target).data = Text(m.disk[m.view.target])
    BY <1>1, <2>1, ReadFacts
  <2> QED
    BY <1>4, <2>1, <2>2, UpdateGood
<1> QED
  BY <1>2, <1>3, <1>4

\* A new watcher sees what is to come.
LEMMA WatchFacts ==
    ASSUME NEW m, NEW e, Good(m, e), Trusted => ~m.view.prepared \/ m.view.target = NoPath
    PROVE  LET n == UpdateWatchedFiles(m)
           IN  Good(n, e) /\ Watches(n) /\ n.view = m.view
<1> DEFINE w == IF m.view.target = NoPath \/ ~m.view.watch THEN "none"
                ELSE IF m.disk[m.view.target] = Absent THEN "directory" ELSE "file"
           n == UpdateWatchedFiles(m)
<1>1. n = [m EXCEPT !.notices = {}, !.watcher = w] /\ w \in {"none", "directory", "file"}
  BY DEF UpdateWatchedFiles
<1>2. Sound(m) /\ m \in Mains
  BY DEF Good, Sound
<1>3. n \in Mains
  <2> HIDE DEF w, n
  <2> QED
    BY <1>1, <1>2 DEF Mains
<1>4. /\ n.view = m.view /\ n.ops = m.ops /\ n.disk = m.disk /\ n.asked = m.asked
      /\ n.watcher = w /\ n.notices = {}
  <2> HIDE DEF w, n
  <2> QED
    BY <1>1, <1>2 DEF Mains
<1> HIDE DEF n
<1>5. Watches(n)
  BY <1>4 DEF Watches
<1>6. Sound(n)
  BY <1>2, <1>3, <1>4 DEF Sound, LiveIsOpen, PathShown, WritesLive, OpsNamed
<1>7. Trusted => Shown(n, e)
  BY <1>4 DEF Good, Shown, LiveIs
<1>8. care = Cares => Recorded(n)
  BY <1>4 DEF Good, Recorded, LiveIs
<1> QED
  BY <1>4, <1>5, <1>6, <1>7, <1>8 DEF Good, n

\* updatePath, of a view that may be of another file than before.
LEMMA UpdatePathGood ==
    ASSUME NEW m, NEW e, NEW n, n = [m EXCEPT !.view.prepared = FALSE],
           m.view.target = n.view.target, ~n.view.prepared,
           Good(n, e), Trusted => InFlight(n) \/ n.view.live = 0,
           NEW u \in UpdatePath(m)
    PROVE  Good(u, e) /\ Watches(u) /\ (Trusted => InFlight(u))
<1> DEFINE loads == IF n.view.target = NoPath
                    THEN {UpdateState(n, State(NoPath, Empty, FALSE))}
                    ELSE LoadAsync(n) \cup (IF "reloads" \in care THEN {} ELSE {n})
<1>1. PICK l \in loads : u = UpdateWatchedFiles(l)
  BY DEF UpdatePath
<1>2. /\ Good(l, e) /\ (Trusted => InFlight(l))
      /\ Trusted => ~l.view.prepared \/ l.view.target = NoPath
  <2>1. CASE n.view.target = NoPath
    <3>1. l = UpdateState(n, State(NoPath, Empty, FALSE))
      BY <1>1, <2>1
    <3>2. State(NoPath, Empty, FALSE) \in States /\ State(NoPath, Empty, FALSE).path = NoPath
      BY Constants DEF State, States, AnyPath
    <3>3. n.view.live = 0
      BY <2>1, SoundLive, Constants DEF Good
    <3>4. Good(l, e) /\ SameFile(n, l)
      BY <2>1, <3>1, <3>2, <3>3, UpdateGood
    <3> QED
      BY <2>1, <3>4 DEF SameFile, InFlight
  <2>2. CASE n.view.target # NoPath /\ l \in LoadAsync(n)
    BY <2>2, LoadAsyncGood
  <2>3. CASE n.view.target # NoPath /\ l \notin LoadAsync(n)
    BY <1>1, <2>3 DEF Trusted
  <2> QED
    BY <2>1, <2>2, <2>3
<1>3. Good(u, e) /\ Watches(u) /\ u.view = l.view
  BY <1>1, <1>2, WatchFacts
<1> QED
  BY <1>2, <1>3 DEF InFlight

-----------------------------------------------------------------------------
(* Saving.                                                                 *)

\* What QML is to take care of when it sets a text.
Careful(m, text, e) == /\ m.view.prepared /\ m.notices = {}
                       /\ m.view.watch \/ e = 0
                       /\ LiveIs(m, "write") => text \notin {Empty, m.view.data}

\* setText keeps what is known and, if QML takes care, what was asked for.
LEMMA SetTextGood ==
    ASSUME NEW m, NEW e, Sound(m), NEW text \in Texts, NEW n \in SetText(m, text)
    PROVE  /\ Sound(n) /\ SameFile(m, n) /\ DOMAIN m.ops \subseteq DOMAIN n.ops
           /\ Watches(m) => Watches(n)
           /\ Good(m, e) /\ (care = Cares => Careful(m, text, e)) => Good(n, e)
<1> DEFINE shown == IF m.view.write = Empty THEN m.view.data ELSE m.view.write
           history == IF m.view.target = NoPath \/ "files" \notin care THEN m.asked
                      ELSE [m.asked EXCEPT ![m.view.target] = text]
           a == [m EXCEPT !.asked = history]
           k == [m EXCEPT !.view.write = text, !.asked = history]
<1>1. m \in Mains /\ m.view.target \in AnyPath
  BY DEF Sound, Mains, Views
<1>2. /\ history \in [Paths -> Texts \cup {NoText}]
      /\ \A q \in Paths : q # m.view.target => history[q] = m.asked[q]
      /\ "files" \in care /\ m.view.target # NoPath => history[m.view.target] = text
      /\ m.view.target = NoPath => history = m.asked
  BY <1>1 DEF Mains, AnyPath
<1>3. \/ n = a /\ shown = text
      \/ shown # text /\ n \in SaveAsync(k, CancelAsync(k))
      \/ /\ shown # text /\ n \in SaveSync(k, CancelAsync(k))
         /\ ~("texts" \in care /\ LiveIs(m, "write"))
  <2>1. k = ToWrite(m, text) /\ k.asked = history
    BY <1>1 DEF ToWrite, Mains
  <2> QED
    BY <2>1 DEF SetText, SetAfter
<1> HIDE DEF history
<1>4. /\ Sound(a) /\ SameFile(m, a) /\ a.ops = m.ops /\ (Watches(m) => Watches(a))
      /\ a.view = m.view /\ a.disk = m.disk /\ a.notices = m.notices /\ a.asked = history
  <2>1. a \in Mains
    BY <1>1, <1>2 DEF Mains
  <2>2. /\ a.view = m.view /\ a.ops = m.ops /\ a.disk = m.disk /\ a.watcher = m.watcher
        /\ a.notices = m.notices /\ a.asked = history
    BY <1>1 DEF Mains
  <2> HIDE DEF a
  <2> QED
    BY <2>1, <2>2 DEF Sound, LiveIsOpen, PathShown, WritesLive, OpsNamed, SameFile, Watches
<1>5. /\ Sound(k) /\ SameFile(m, k) /\ k.ops = m.ops /\ (Watches(m) => Watches(k))
      /\ k.view.live = m.view.live /\ k.view.data = m.view.data
      /\ k.view.prepared = m.view.prepared
      /\ k.view.write = text /\ k.disk = m.disk /\ k.notices = m.notices /\ k.asked = history
  <2>1. PICK w : w = [a EXCEPT !.view.write = text]
    OBVIOUS
  <2>2. k = w
    BY <2>1
  <2>3. /\ Sound(w) /\ Beside(a, w) /\ SameFile(a, w)
        /\ w.view.live = a.view.live /\ w.view.data = a.view.data
        /\ w.view.prepared = a.view.prepared /\ w.view.write = text
    BY <1>4, <2>1, WriteFacts
  <2> HIDE DEF a, k
  <2> QED
    BY <1>4, <2>2, <2>3 DEF Beside, SameFile, Watches
<1> HIDE DEF a, k
<1>11. PICK cs : cs = CancelAsync(k)
  OBVIOUS
<1>12. k \in Mains /\ \A c \in cs : Cancelled(k, c)
  BY <1>5, <1>11, CancelFacts DEF Sound
<1>6. care = Cares => Trusted /\ "files" \in care /\ "texts" \in care /\ "handlers" \in care
  BY DEF Cares, Trusted
<1>7. CASE n = a /\ shown = text
  <2>1. SUFFICES ASSUME Good(m, e), care = Cares => Careful(m, text, e)
                 PROVE  Good(n, e)
    BY <1>4, <1>7
  <2>2. Trusted => Shown(n, e)
    BY <1>4, <1>7, <2>1 DEF Good, Shown, LiveIs
  <2>3. ASSUME care = Cares
        PROVE  Recorded(n)
    <3>1. Recorded(m) /\ Careful(m, text, e) /\ Shown(m, e) /\ "files" \in care
      BY <1>6, <2>1, <2>3 DEF Good
    <3>2. CASE m.view.target = NoPath
      BY <1>2, <1>4, <1>7, <3>1, <3>2 DEF Recorded, LiveIs
    <3>3. CASE m.view.target # NoPath /\ LiveIs(m, "write")
      <4>1. m.ops[m.view.live].state.data = text
        BY <1>7, <3>1, <3>3 DEF Careful, Recorded
      <4>2. history[m.view.target] = text
        BY <1>2, <3>1, <3>3
      <4> QED
        BY <1>2, <1>4, <1>7, <3>1, <3>3, <4>1, <4>2 DEF Recorded, LiveIs
    <3>4. CASE m.view.target # NoPath /\ ~LiveIs(m, "write")
      <4>1. m.view.live = 0
        <5>1. ~LiveIs(m, "read")
          BY <3>1 DEF Shown, Careful
        <5> QED
          BY <3>4, <5>1, SoundLive DEF LiveIs
      <4>2. m.view.data = text
        BY <1>7, <3>1, <3>4 DEF Recorded
      <4>3. Text(m.disk[m.view.target]) = text
        BY <3>1, <3>4, <4>1, <4>2 DEF Shown, Careful
      <4>4. history[m.view.target] = text
        BY <1>2, <3>1, <3>4
      <4> QED
        BY <1>2, <1>4, <1>7, <3>1, <3>4, <4>3, <4>4 DEF Recorded, LiveIs
    <3> QED
      BY <3>2, <3>3, <3>4
  <2> QED
    BY <1>4, <1>7, <2>2, <2>3 DEF Good
<1>8. CASE m.view.target = NoPath /\ (n \in SaveAsync(k, cs) \/ n \in SaveSync(k, cs))
  <2>1. n = [k EXCEPT !.view.write = Empty] /\ m.view.live = 0
    <3>1. k.view.target = NoPath
      BY <1>5, <1>8 DEF SameFile
    <3> QED
      BY <1>8, <3>1, SoundLive, Constants DEF SaveAsync, SaveSync
  <2>2. /\ Sound(n) /\ Beside(k, n) /\ SameFile(k, n)
        /\ n.view.live = k.view.live /\ n.view.write = Empty
    BY <1>5, <2>1, WriteFacts, Constants
  <2>3. Shown(n, e)
    BY <1>5, <1>8, <2>1, <2>2 DEF Shown, LiveIs, SameFile
  <2>4. Good(m, e) => (care = Cares => Recorded(n))
    BY <1>2, <1>5, <1>8, <2>1, <2>2 DEF Good, Recorded, LiveIs, Beside
  <2>5. SameFile(m, n) /\ n.ops = m.ops /\ (Watches(m) => Watches(n))
    BY <1>5, <2>2 DEF SameFile, Beside, Watches
  <2> QED
    BY <2>2, <2>3, <2>4, <2>5 DEF Good
<1>9. CASE m.view.target # NoPath /\ n \in SaveAsync(k, cs)
  <2>1. k.view.target # NoPath /\ k.view.target = m.view.target
    BY <1>5, <1>9 DEF SameFile
  <2>2. /\ Sound(n) /\ SameFile(k, n) /\ DOMAIN k.ops \subseteq DOMAIN n.ops
        /\ Watches(k) => Watches(n)
        /\ "handlers" \in care => n.asked = k.asked
        /\ n.view.live # 0
        /\ n.ops[n.view.live].kind = "write" /\ n.ops[n.view.live].phase = "queued"
        /\ n.ops[n.view.live].state.data = k.view.write
        /\ "handlers" \in care => n.view.write \in {Empty, k.view.write}
        /\ \A q \in Paths : q # k.view.target => n.disk[q] = k.disk[q]
    BY <1>9, <1>12, <2>1, SaveAsyncFacts
  <2>3. SameFile(m, n) /\ DOMAIN m.ops \subseteq DOMAIN n.ops /\ (Watches(m) => Watches(n))
    BY <1>5, <2>2 DEF SameFile
  <2>4. Shown(n, e)
    BY <2>2 DEF Shown, LiveIs
  <2>5. ASSUME Good(m, e), care = Cares
        PROVE  Recorded(n)
    <3>1. LiveIs(n, "write") /\ n.view.target = m.view.target
      BY <2>2, <2>3 DEF LiveIs, SameFile
    <3>2. n.asked[m.view.target] = text /\ n.ops[n.view.live].state.data = text
      BY <1>2, <1>5, <1>6, <1>9, <2>2, <2>5
    <3>3. ASSUME NEW q \in Paths, q # m.view.target, n.asked[q] # NoText
          PROVE  Text(n.disk[q]) = n.asked[q]
      BY <1>2, <1>5, <1>6, <2>1, <2>2, <2>5, <3>3 DEF Good, Recorded
    <3> QED
      BY <1>5, <1>6, <2>2, <2>5, <3>1, <3>2, <3>3 DEF Recorded
  <2> QED
    BY <2>2, <2>3, <2>4, <2>5 DEF Good
<1>10. CASE /\ m.view.target # NoPath /\ n \in SaveSync(k, cs)
            /\ ~("texts" \in care /\ LiveIs(m, "write"))
  <2>1. k.view.target # NoPath /\ k.view.target = m.view.target
    BY <1>5, <1>10 DEF SameFile
  <2>2. /\ Sound(n) /\ SameFile(k, n) /\ DOMAIN k.ops \subseteq DOMAIN n.ops
        /\ Watches(k) => Watches(n)
        /\ "handlers" \in care => n.asked = k.asked
        /\ n.view.live = 0 /\ n.view.write = Empty
        /\ "files" \in care => n.view.data = Text(n.disk[k.view.target])
        /\ "files" \in care /\ ~LiveIs(k, "write") => n.disk[k.view.target] = k.view.write
        /\ \A q \in Paths : q # k.view.target => n.disk[q] = k.disk[q]
    BY <1>10, <1>12, <2>1, SaveSyncFacts
  <2>3. SameFile(m, n) /\ DOMAIN m.ops \subseteq DOMAIN n.ops /\ (Watches(m) => Watches(n))
    BY <1>5, <2>2 DEF SameFile
  <2>4. Trusted => Shown(n, e)
    BY <2>1, <2>2, <2>3 DEF Shown, LiveIs, SameFile, Trusted
  <2>5. ASSUME Good(m, e), care = Cares
        PROVE  Recorded(n)
    <3>1. ~LiveIs(n, "write") /\ ~LiveIs(k, "write")
      BY <1>5, <1>6, <1>10, <2>2, <2>5 DEF LiveIs
    <3>2. Text(n.disk[m.view.target]) = n.asked[m.view.target]
      BY <1>2, <1>5, <1>6, <1>10, <2>1, <2>2, <2>5, <3>1, Constants DEF Text
    <3>3. ASSUME NEW q \in Paths, q # m.view.target, n.asked[q] # NoText
          PROVE  Text(n.disk[q]) = n.asked[q]
      BY <1>2, <1>5, <1>6, <2>1, <2>2, <2>5, <3>3 DEF Good, Recorded
    <3> QED
      BY <2>2, <3>1, <3>2, <3>3 DEF Recorded
  <2> QED
    BY <2>2, <2>3, <2>4, <2>5 DEF Good
<1> QED
  BY <1>3, <1>11, <1>7, <1>8, <1>9, <1>10

-----------------------------------------------------------------------------
(* The steps.                                                              *)

\* What becomes of the view in a step that makes no edit.
GoodNext == Good(main', edits) /\ (Trusted => Watches(main') /\ InFlight(main'))

LEMMA OpAt ==
    ASSUME IInv, NEW i \in DOMAIN main.ops, main.ops[i].phase # "gone"
    PROVE  /\ Sound(main) /\ main \in Mains
           /\ main.ops[i] \in Operations /\ main.ops[i].state.path \in Paths
           /\ main.ops[i].state.data \in Texts /\ main.ops[i].kind \in {"read", "write"}
           /\ main.view.live = i => /\ main.ops[i].state.path = main.view.target
                                    /\ ~main.ops[i].cancel
<1>1. Sound(main) /\ main \in Mains
  BY DEF IInv, Good, Sound
<1>2. main.ops[i] \in Operations
  BY <1>1, ElementOfSeq, LenProperties DEF Mains
<1>3. i \in 1..Len(main.ops) /\ i # 0
  BY <1>1, LenProperties DEF Mains
<1> QED
  BY <1>1, <1>2, <1>3 DEF Sound, OpsNamed, LiveIsOpen, Operations, States, AnyPath

LEMMA WriterOpensKeeps ==
    ASSUME IInv, NEW i \in DOMAIN main.ops, WriterOpens(i)
    PROVE  GoodNext
<1> DEFINE op == main.ops[i]
           p == op.state.path
           opNow == [op EXCEPT !.phase = "opened"]
<1>1. /\ op.phase = "queued" /\ op.kind = "write" /\ ~op.atomic /\ ~op.cancel
      /\ main' = [Written(main, p, Empty, FALSE) EXCEPT !.ops[i].phase = "opened"]
  BY DEF WriterOpens, Runs, Becomes
<1>2. /\ Sound(main) /\ main \in Mains /\ op \in Operations /\ p \in Paths
      /\ main.view.live = i => p = main.view.target
  BY <1>1, OpAt
<1>3. PICK n : n = Written(main, p, Empty, FALSE)
  OBVIOUS
<1>4. /\ n \in Mains
      /\ n.view = main.view /\ n.ops = main.ops /\ n.asked = main.asked
      /\ \A q \in Paths : q # p => n.disk[q] = main.disk[q]
      /\ Watches(main) => Watches(n)
  <2>1. Empty \in Contents /\ Empty # Absent /\ FALSE \in BOOLEAN
    BY Constants DEF Contents
  <2>2. main \in Mains /\ p \in Paths
    BY <1>2
  <2> HIDE DEF p
  <2> QED
    BY <1>3, <2>1, <2>2, WrittenFacts
<1>5. /\ opNow \in Operations
      /\ opNow.phase = "opened" /\ opNow.kind = op.kind /\ opNow.state = op.state
      /\ opNow.connected = op.connected /\ opNow.cancel = op.cancel
  <2>1. opNow \in Operations
    BY <1>2 DEF Operations, Phases
  <2>2. /\ opNow.phase = "opened" /\ opNow.kind = op.kind /\ opNow.state = op.state
        /\ opNow.connected = op.connected /\ opNow.cancel = op.cancel
    BY <1>2 DEF Operations
  <2> QED
    BY <2>1, <2>2
<1>6. main' = WithOp(n, i, opNow)
  <2>1. [n EXCEPT !.ops[i].phase = "opened"]
        = [n EXCEPT !.ops[i] = [n.ops[i] EXCEPT !.phase = "opened"]]
    OBVIOUS
  <2> QED
    BY <1>1, <1>3, <1>4, <2>1 DEF WithOp
<1> HIDE DEF opNow
<1>7. PICK x : x = main'
  OBVIOUS
<1>8. /\ x \in Mains
      /\ x.view = n.view /\ x.disk = n.disk /\ x.watcher = n.watcher
      /\ x.notices = n.notices /\ x.asked = n.asked
      /\ DOMAIN x.ops = DOMAIN main.ops /\ x.ops[i] = opNow
      /\ \A j \in DOMAIN main.ops : j # i => x.ops[j] = main.ops[j]
  BY <1>4, <1>5, <1>6, <1>7, WithOpFacts
<1>9. Sound(x)
  <2>1. LiveIsOpen(x)
    BY <1>1, <1>2, <1>4, <1>5, <1>8 DEF LiveIsOpen, Sound
  <2>2. PathShown(x)
    BY <1>2, <1>4, <1>8 DEF PathShown, Sound
  <2>3. WritesLive(x)
    BY <1>1, <1>2, <1>4, <1>8 DEF WritesLive, Writes, Sound
  <2>4. OpsNamed(x)
    BY <1>1, <1>2, <1>5, <1>8 DEF OpsNamed, Sound
  <2> QED
    BY <1>8, <2>1, <2>2, <2>3, <2>4 DEF Sound
<1>10. Trusted => main.view.live = i /\ i # 0 /\ LiveIs(x, "write")
  <2>1. Trusted => main.view.live = i
    BY <1>1, <1>2 DEF Sound, WritesLive, Writes, Trusted
  <2>2. i # 0
    BY <1>2, LenProperties DEF Mains
  <2> QED
    BY <1>1, <1>4, <1>5, <1>8, <2>1, <2>2 DEF LiveIs
<1>11. Trusted => Shown(x, edits)
  BY <1>4, <1>5, <1>8, <1>10 DEF Shown, LiveIs
<1>12. ASSUME care = Cares
       PROVE  Recorded(x)
  <2>1. Trusted /\ Recorded(main)
    BY <1>12 DEF Trusted, Cares, IInv, Good
  <2>2. LiveIs(main, "write")
    BY <1>1, <1>10, <2>1 DEF LiveIs
  <2> QED
    BY <1>2, <1>4, <1>5, <1>8, <1>10, <2>1, <2>2 DEF Recorded
<1>13. Watches(main) => Watches(x)
  BY <1>4, <1>8 DEF Watches
<1>14. InFlight(main) => InFlight(x)
  BY <1>4, <1>8 DEF InFlight
<1> QED
  BY <1>7, <1>9, <1>11, <1>12, <1>13, <1>14 DEF GoodNext, Good, IInv

LEMMA OperationRunsKeeps ==
    ASSUME IInv, NEW i \in DOMAIN main.ops, OperationRuns(i)
    PROVE  GoodNext
<1> DEFINE op == main.ops[i]
           p == op.state.path
<1>1. /\ op.phase \in {"queued", "opened"}
      /\ \E r \in Ends(main, op) :
             main' = [Leave(main, op, r) EXCEPT
                      !.ops[i].phase = "ended", !.ops[i].state = r.state,
                      !.ops[i].atomic = FALSE, !.ops[i].cancel = FALSE]
  BY DEF OperationRuns, Runs, Becomes
<1>2. PICK r \in Ends(main, op) :
          main' = [Leave(main, op, r) EXCEPT !.ops[i].phase = "ended", !.ops[i].state = r.state,
                                             !.ops[i].atomic = FALSE, !.ops[i].cancel = FALSE]
  BY <1>1
<1>3. /\ Sound(main) /\ main \in Mains /\ op \in Operations /\ p \in Paths
      /\ op.state.data \in Texts /\ op.kind \in {"read", "write"}
      /\ main.view.live = i => p = main.view.target /\ ~op.cancel
      /\ op.phase # "ended"
  BY <1>1, OpAt
<1>4. PICK n : n = Leave(main, op, r)
  OBVIOUS
<1>5. /\ n \in Mains
      /\ n.view = main.view /\ n.ops = main.ops /\ n.asked = main.asked
      /\ \A q \in Paths : q # p => n.disk[q] = main.disk[q]
      /\ op.kind = "read" => n = main
      /\ op.kind = "write" /\ r.content = op.state.data => n.disk[p] = op.state.data
      /\ Watches(main) => Watches(n)
  BY <1>3, <1>4, LeaveFacts
<1>6. /\ r.state \in States /\ r.state.path = p
      /\ op.kind = "write" => r.state.data = op.state.data
      /\ op.kind = "read" => r.state.data = Text(main.disk[p])
      /\ "files" \in care /\ op.kind = "write" /\ ~op.cancel => r.content = op.state.data
  BY <1>3, EndsFacts
<1> DEFINE opNow == [op EXCEPT !.phase = "ended", !.state = r.state, !.atomic = FALSE,
                               !.cancel = FALSE]
<1>7. /\ opNow \in Operations
      /\ opNow.phase = "ended" /\ opNow.kind = op.kind /\ opNow.state = r.state
      /\ opNow.connected = op.connected /\ opNow.cancel = FALSE
  <2>1. opNow \in Operations
    BY <1>3, <1>6 DEF Operations, Phases
  <2>2. /\ opNow.phase = "ended" /\ opNow.kind = op.kind /\ opNow.state = r.state
        /\ opNow.connected = op.connected /\ opNow.cancel = FALSE
    BY <1>3 DEF Operations
  <2> QED
    BY <2>1, <2>2
<1>8. main' = WithOp(n, i, opNow)
  <2>1. [n EXCEPT !.ops[i].phase = "ended", !.ops[i].state = r.state,
                  !.ops[i].atomic = FALSE, !.ops[i].cancel = FALSE]
        = [n EXCEPT !.ops[i] = [n.ops[i] EXCEPT !.phase = "ended", !.state = r.state,
                                                !.atomic = FALSE, !.cancel = FALSE]]
    OBVIOUS
  <2> QED
    BY <1>2, <1>4, <1>5, <2>1 DEF WithOp
<1> HIDE DEF opNow
<1>9. PICK x : x = main'
  OBVIOUS
<1>10. /\ x \in Mains
       /\ x.view = n.view /\ x.disk = n.disk /\ x.watcher = n.watcher
       /\ x.notices = n.notices /\ x.asked = n.asked
       /\ DOMAIN x.ops = DOMAIN main.ops /\ x.ops[i] = opNow
       /\ \A j \in DOMAIN main.ops : j # i => x.ops[j] = main.ops[j]
  BY <1>5, <1>7, <1>8, <1>9, WithOpFacts
<1>11. Sound(x)
  <2>1. LiveIsOpen(x)
    BY <1>3, <1>5, <1>6, <1>7, <1>10 DEF LiveIsOpen, Sound
  <2>2. PathShown(x)
    BY <1>3, <1>5, <1>10 DEF PathShown, Sound
  <2>3. WritesLive(x)
    BY <1>3, <1>5, <1>7, <1>10 DEF WritesLive, Writes, Sound
  <2>4. OpsNamed(x)
    BY <1>3, <1>6, <1>7, <1>10, Constants DEF OpsNamed, Sound
  <2> QED
    BY <1>10, <2>1, <2>2, <2>3, <2>4 DEF Sound
<1>12. \A kind : LiveIs(x, kind) <=> LiveIs(main, kind)
  BY <1>5, <1>7, <1>10, <1>3 DEF LiveIs, Sound, LiveIsOpen
<1>13. op.kind = "write" /\ Trusted => main.view.live = i /\ ~op.cancel
  BY <1>1, <1>3 DEF Sound, WritesLive, Writes, Trusted
<1>14. ASSUME Trusted, main.view.live = i
       PROVE  r.state.data = Text(n.disk[main.view.target])
  <2>1. CASE op.kind = "read"
    BY <1>3, <1>5, <1>6, <1>14, <2>1
  <2>2. CASE op.kind = "write"
    BY <1>3, <1>5, <1>6, <1>14, <2>2, Constants DEF Trusted, Text
  <2> QED
    BY <1>3, <2>1, <2>2
<1>15. ASSUME Trusted
       PROVE  Shown(x, edits)
  <2>1. Shown(main, edits)
    BY <1>15 DEF IInv, Good
  <2>2. CASE main.view.live = i
    <3>1. i # 0
      BY <1>3, LenProperties DEF Mains
    <3> QED
      BY <1>5, <1>7, <1>10, <1>12, <1>14, <1>15, <2>1, <2>2, <3>1 DEF Shown
  <2>3. CASE main.view.live # i
    <3>1. n = main
      BY <1>3, <1>5, <1>13, <1>15, <2>3
    <3>2. main.view.live # 0 => main.view.live \in DOMAIN main.ops
      BY <1>3 DEF Sound, LiveIsOpen
    <3> QED
      BY <1>10, <1>12, <2>1, <2>3, <3>1, <3>2 DEF Shown
  <2> QED
    BY <2>2, <2>3
<1>16. ASSUME care = Cares
       PROVE  Recorded(x)
  <2>1. Trusted /\ Recorded(main)
    BY <1>16 DEF Trusted, Cares, IInv, Good
  <2>2. CASE op.kind = "write"
    <3>1. main.view.live = i /\ i # 0 /\ p = main.view.target
      BY <1>3, <1>13, <2>1, <2>2, LenProperties DEF Mains
    <3>2. LiveIs(main, "write")
      BY <2>2, <3>1 DEF LiveIs
    <3> QED
      BY <1>5, <1>6, <1>7, <1>10, <1>12, <2>1, <2>2, <3>1, <3>2 DEF Recorded
  <2>3. CASE op.kind = "read"
    <3>1. n = main
      BY <1>5, <2>3
    <3>2. LiveIs(main, "write") => main.view.live \in DOMAIN main.ops /\ main.view.live # i
      BY <1>3, <2>3 DEF LiveIs, Sound, LiveIsOpen
    <3> QED
      BY <1>10, <1>12, <2>1, <3>1, <3>2 DEF Recorded
  <2> QED
    BY <1>3, <2>2, <2>3
<1>17. Watches(main) => Watches(x)
  BY <1>5, <1>10 DEF Watches
<1>18. InFlight(main) => InFlight(x)
  BY <1>5, <1>10 DEF InFlight
<1> QED
  BY <1>9, <1>11, <1>15, <1>16, <1>17, <1>18 DEF GoodNext, Good, IInv

LEMMA GoneFacts == Gone \in Operations /\ Gone.phase = "gone" /\ Gone.kind = "read"
BY Constants DEF Gone, Operation, Operations, State, States, Phases, AnyPath

\* An operation is deleted that is not the live one.
LEMMA DeleteGood ==
    ASSUME NEW m, NEW e, Good(m, e), NEW i \in DOMAIN m.ops, m.view.live # i
    PROVE  LET n == WithOp(m, i, Gone)
           IN  /\ Good(n, e) /\ n.view = m.view
               /\ Watches(m) => Watches(n)
<1> DEFINE n == WithOp(m, i, Gone)
<1>1. Sound(m) /\ m \in Mains
  BY DEF Good, Sound
<1>2. /\ n \in Mains
      /\ n.view = m.view /\ n.disk = m.disk /\ n.watcher = m.watcher
      /\ n.notices = m.notices /\ n.asked = m.asked
      /\ DOMAIN n.ops = DOMAIN m.ops /\ n.ops[i] = Gone
      /\ \A j \in DOMAIN m.ops : j # i => n.ops[j] = m.ops[j]
  BY <1>1, GoneFacts, WithOpFacts
<1> HIDE DEF n
<1>3. m.view.live # 0 => /\ m.view.live \in DOMAIN m.ops
                         /\ n.ops[m.view.live] = m.ops[m.view.live]
  BY <1>1, <1>2 DEF Sound, LiveIsOpen
<1>4. Sound(n)
  <2>1. LiveIsOpen(n) /\ PathShown(n)
    BY <1>1, <1>2, <1>3 DEF Sound, LiveIsOpen, PathShown
  <2>2. WritesLive(n)
    BY <1>1, <1>2, GoneFacts DEF Sound, WritesLive, Writes
  <2>3. OpsNamed(n)
    BY <1>1, <1>2, GoneFacts DEF Sound, OpsNamed
  <2> QED
    BY <1>2, <2>1, <2>2, <2>3 DEF Sound
<1>5. Shown(m, e) => Shown(n, e)
  BY <1>2, <1>3 DEF Shown, LiveIs
<1>6. Recorded(m) => Recorded(n)
  BY <1>2, <1>3 DEF Recorded, LiveIs
<1>7. Watches(m) => Watches(n)
  BY <1>2 DEF Watches
<1> QED
  BY <1>2, <1>4, <1>5, <1>6, <1>7 DEF Good, n

LEMMA OperationFinishedKeeps ==
    ASSUME IInv, NEW i \in DOMAIN main.ops, OperationFinished(i)
    PROVE  GoodNext
<1> DEFINE op == main.ops[i]
           taken == op.connected /\ main.view.live = i
<1>1. /\ op.phase = "ended"
      /\ \E m \in IF taken THEN Handlers(TakeState(main), main.view.path)
                  ELSE {main} : main' = WithOp(m, i, Gone)
  BY DEF OperationFinished, Runs, Becomes, WithOp
<1>2. /\ Sound(main) /\ main \in Mains /\ Good(main, edits)
      /\ op \in Operations /\ op.state.data \in Texts
      /\ main.view.live = i => op.state.path = main.view.target
  BY <1>1, OpAt DEF IInv
<1>3. CASE ~taken
  <2>1. main' = WithOp(main, i, Gone) /\ main.view.live # i
    <3>1. i # 0
      BY <1>2, LenProperties DEF Mains
    <3> QED
      BY <1>1, <1>2, <1>3, <3>1 DEF Sound, LiveIsOpen
  <2>2. PICK x : x = main'
    OBVIOUS
  <2>3. Good(x, edits) /\ x.view = main.view /\ (Watches(main) => Watches(x))
    BY <1>2, <2>1, <2>2, DeleteGood
  <2> QED
    BY <2>2, <2>3 DEF GoodNext, IInv, InFlight
<1>4. CASE taken
  <2>1. PICK k \in Handlers(TakeState(main), main.view.path) : main' = WithOp(k, i, Gone)
    BY <1>1, <1>4
  <2>2. PICK t : t = TakeState(main)
    OBVIOUS
  <2>3. i # 0
    BY <1>2, LenProperties DEF Mains
  <2>4. /\ t \in Mains /\ Beside(main, t) /\ SameFile(main, t)
        /\ t.view.live = i /\ t.view.write = Empty
        /\ t.view.path = main.view.target /\ t.view.data = op.state.data
        /\ t.view.prepared = TRUE
    <3>1. main.view.live \in DOMAIN main.ops /\ main.view.live = i
      BY <1>4
    <3> HIDE DEF op
    <3> QED
      BY <1>2, <2>2, <3>1, TakeFacts DEF op
  <2>5. PathShown(t) /\ OpsNamed(t) /\ t.view.target # NoPath
    BY <1>2, <1>4, <2>3, <2>4
    DEF Sound, LiveIsOpen, PathShown, OpsNamed, Beside, SameFile
  <2>6. "handlers" \in care => \A j \in DOMAIN t.ops : ~Writes(t.ops[j])
    BY <1>1, <1>2, <1>4, <2>4 DEF Sound, WritesLive, Writes, Beside
  <2>7. /\ Sound(k) /\ k.view.live = 0 /\ SameFile(t, k)
        /\ DOMAIN t.ops \subseteq DOMAIN k.ops
        /\ "handlers" \in care =>
              /\ Beside(t, k) /\ k.view.write = t.view.write /\ k.view.path = t.view.path
              /\ k.view.data = t.view.data /\ k.view.prepared = t.view.prepared
    <3>1. /\ k \in Handlers(t, main.view.path) /\ main.view.path \in AnyPath
          /\ t.view.live # 0 /\ t.view.live \in DOMAIN t.ops
      BY <1>2, <2>1, <2>2, <2>3, <2>4 DEF Beside, Mains, Views
    <3> QED
      BY <2>4, <2>5, <2>6, <3>1, HandlersFacts
  <2>8. Trusted => "handlers" \in care
    BY DEF Trusted
  <2>12. Trusted => k.view.data = Text(k.disk[main.view.target])
    BY <1>1, <1>2, <1>4, <2>3, <2>4, <2>7, <2>8 DEF Good, Shown, Beside
  <2>13. Trusted => Shown(k, edits)
    BY <2>4, <2>7, <2>12 DEF Shown, LiveIs, SameFile
  <2>14. ASSUME care = Cares
         PROVE  Recorded(k)
    <3>1. Trusted /\ Recorded(main) /\ "handlers" \in care
      BY <1>2, <2>14 DEF Trusted, Cares, Good
    <3>2. k.disk = main.disk /\ k.asked = main.asked /\ k.view.write = Empty
      BY <2>4, <2>7, <3>1 DEF Beside
    <3>3. ASSUME LiveIs(main, "write")
          PROVE  k.asked[main.view.target] = Text(k.disk[main.view.target])
      BY <1>4, <2>4, <2>7, <2>12, <3>1, <3>2, <3>3 DEF Recorded
    <3> QED
      BY <2>7, <3>1, <3>2, <3>3 DEF Recorded, LiveIs
  <2>15. Trusted => (Watches(main) => Watches(k)) /\ (InFlight(main) => InFlight(k))
    BY <2>4, <2>7, <2>8 DEF Watches, InFlight, Beside, SameFile
  <2>16. Good(k, edits) /\ i \in DOMAIN k.ops /\ k.view.live # i
    BY <2>3, <2>4, <2>7, <2>13, <2>14 DEF Good, Beside
  <2>17. PICK x : x = main'
    OBVIOUS
  <2>18. Good(x, edits) /\ x.view = k.view /\ (Watches(k) => Watches(x))
    BY <2>1, <2>16, <2>17, DeleteGood
  <2> QED
    BY <2>15, <2>17, <2>18 DEF GoodNext, IInv, InFlight
<1> QED
  BY <1>3, <1>4

\* A view that is to be prepared again is sound whatever its path was.
LEMMA UnpreparedGood ==
    ASSUME NEW m, NEW e, Good(m, e), NEW k \in Mains,
           k.view = m.view, k.ops = m.ops, k.disk = m.disk, k.asked = m.asked
    PROVE  LET n == [k EXCEPT !.view.prepared = FALSE]
           IN  /\ Sound(k) /\ (care = Cares => Recorded(k))
               /\ Good(n, e) /\ SameFile(m, n) /\ n.view.live = m.view.live
               /\ ~n.view.prepared
<1> DEFINE n == [k EXCEPT !.view.prepared = FALSE]
<1>1. Sound(k)
  BY DEF Good, Sound, LiveIsOpen, PathShown, WritesLive, OpsNamed
<1>2. n \in Mains
  BY DEF Mains, Views
<1>3. Beside(k, n)
  BY DEF Mains, Beside
<1>4. /\ SameFile(k, n) /\ n.view.live = k.view.live /\ n.view.write = k.view.write
      /\ ~n.view.prepared
  BY DEF Mains, Views, SameFile
<1> HIDE DEF n
<1>5. Sound(n)
  BY <1>1, <1>2, <1>3, <1>4
  DEF Sound, LiveIsOpen, PathShown, WritesLive, OpsNamed, Beside, SameFile
<1>6. Shown(m, e) => Shown(n, e)
  BY <1>3, <1>4 DEF Shown, LiveIs, Beside, SameFile
<1>7. Recorded(m) => Recorded(k) /\ Recorded(n)
  BY <1>3, <1>4 DEF Recorded, LiveIs, Beside, SameFile
<1> QED
  BY <1>1, <1>4, <1>5, <1>6, <1>7 DEF Good, SameFile, n

\* Another path is set while nothing is under way.
LEMMA SetPathKeeps ==
    ASSUME IInv, NEW path \in AnyPath, SetPath(path)
    PROVE  GoodNext
<1>1. PICK c \in IF LiveIs(main, "write") THEN WaitForJob(main) ELSE CancelAsync(main) :
          main' \in UpdatePath([c EXCEPT !.view.target = path])
  BY DEF SetPath, Calls, Becomes
<1>2. Good(main, edits) /\ Sound(main)
  BY DEF IInv, Good
<1>3. Sound(c) /\ c.view.live = 0 /\ (care = Cares => Recorded(c))
  <2>1. CASE LiveIs(main, "write")
    <3>1. c \in WaitForJob(main) /\ main.view.live # 0
      BY <1>1, <2>1 DEF LiveIs
    <3> QED
      BY <1>2, <3>1, WaitGood DEF Good
  <2>2. CASE ~LiveIs(main, "write")
    <3>1. c \in CancelAsync(main)
      BY <1>1, <2>2
    <3>2. /\ Sound(c) /\ c.view.live = 0 /\ c.asked = main.asked
          /\ c.view = [main.view EXCEPT !.live = 0] /\ c.disk = main.disk
      BY <1>2, <2>2, <3>1, CancelFacts DEF Cancelled
    <3>3. c.view.write = main.view.write
      BY <1>2, <3>2 DEF Sound, Mains, Views
    <3> QED
      BY <1>2, <2>2, <3>2, <3>3 DEF Good, Recorded, LiveIs
  <2> QED
    BY <2>1, <2>2
<1>4. PICK m : m = [c EXCEPT !.view.target = path]
  OBVIOUS
<1>5. PICK n : n = [m EXCEPT !.view.prepared = FALSE]
  OBVIOUS
<1>6. /\ n \in Mains /\ Beside(c, n) /\ n.view.target = path /\ m.view.target = path
      /\ n.view.live = 0 /\ n.view.write = c.view.write /\ n.view.prepared = FALSE
  <2>1. c \in Mains
    BY <1>3 DEF Sound
  <2>2. m \in Mains
    BY <1>4, <2>1 DEF Mains, Views
  <2>3. /\ Beside(c, m) /\ m.view.target = path /\ m.view.live = c.view.live
        /\ m.view.write = c.view.write
    BY <1>4, <2>1 DEF Mains, Views, Beside
  <2>4. n \in Mains
    BY <1>5, <2>2 DEF Mains, Views
  <2>5. /\ Beside(m, n) /\ n.view.target = m.view.target /\ n.view.live = m.view.live
        /\ n.view.write = m.view.write /\ n.view.prepared = FALSE
    BY <1>5, <2>2 DEF Mains, Views, Beside
  <2> QED
    BY <1>3, <2>3, <2>4, <2>5 DEF Beside
<1>7. Good(n, edits)
  <2>1. Sound(n)
    BY <1>3, <1>6 DEF Sound, LiveIsOpen, PathShown, WritesLive, OpsNamed, Beside
  <2>2. Shown(n, edits)
    BY <1>6 DEF Shown, LiveIs
  <2>3. care = Cares => Recorded(n)
    BY <1>3, <1>6 DEF Recorded, LiveIs, Beside
  <2> QED
    BY <2>1, <2>2, <2>3 DEF Good
<1>8. PICK u : u = main'
  OBVIOUS
<1>9. u \in UpdatePath(m)
  BY <1>1, <1>4, <1>8
<1>10. Good(u, edits) /\ Watches(u) /\ (Trusted => InFlight(u))
  BY <1>5, <1>6, <1>7, <1>9, UpdatePathGood
<1> QED
  BY <1>8, <1>10 DEF GoodNext

LEMMA ReloadKeeps ==
    ASSUME IInv, Reload
    PROVE  GoodNext
<1>1. main' \in UpdatePath(main)
  BY DEF Reload, Calls, Becomes
<1>2. Good(main, edits) /\ main \in Mains /\ (Trusted => InFlight(main))
  BY DEF IInv, Good, Sound
<1>3. PICK n : n = [main EXCEPT !.view.prepared = FALSE]
  OBVIOUS
<1>4. Good(n, edits) /\ SameFile(main, n) /\ ~n.view.prepared
  BY <1>2, <1>3, UnpreparedGood
<1>5. main.view.target = n.view.target /\ (Trusted => InFlight(n))
  BY <1>2, <1>4 DEF SameFile, InFlight
<1>6. PICK u : u = main'
  OBVIOUS
<1>7. Good(u, edits) /\ Watches(u) /\ (Trusted => InFlight(u))
  BY <1>1, <1>3, <1>4, <1>5, <1>6, UpdatePathGood
<1> QED
  BY <1>6, <1>7 DEF GoodNext

LEMMA QmlSetsTextKeeps ==
    ASSUME IInv, NEW text \in Texts, QmlSetsText(text)
    PROVE  GoodNext
<1>1. main' \in SetText(main, text)
  BY DEF QmlSetsText, Calls, Becomes
<1>2. care = Cares => Careful(main, text, edits)
  BY DEF QmlSetsText, Careful, Cares
<1>3. Sound(main) /\ Good(main, edits)
  BY DEF IInv, Good
<1>4. PICK n : n = main'
  OBVIOUS
<1>5. Good(n, edits) /\ SameFile(main, n) /\ (Watches(main) => Watches(n))
  BY <1>1, <1>2, <1>3, <1>4, SetTextGood
<1> QED
  BY <1>4, <1>5 DEF GoodNext, IInv, InFlight, SameFile

LEMMA LoadsKeep ==
    ASSUME IInv, QmlReads \/ QmlWaits \/ Preloads
    PROVE  GoodNext
<1>1. Good(main, edits)
  BY DEF IInv
<1>2. PICK n : n = main'
  OBVIOUS
<1>3. CASE n \in LoadSync(main)
  <2>1. Good(n, edits) /\ SameFile(main, n) /\ (Watches(main) => Watches(n))
    BY <1>1, <1>3, LoadSyncGood
  <2> QED
    BY <1>2, <2>1 DEF GoodNext, IInv, InFlight, SameFile
<1>4. CASE ~main.view.prepared /\ n \in LoadAsync(main)
  <2>1. Trusted => InFlight(main) \/ main.view.live = 0
    BY DEF IInv
  <2>2. Good(n, edits) /\ InFlight(n) /\ (Watches(main) => Watches(n))
    BY <1>1, <1>4, <2>1, LoadAsyncGood
  <2> QED
    BY <1>2, <2>2 DEF GoodNext, IInv
<1>5. CASE main.view.live # 0 /\ n \in WaitForJob(main)
  <2>1. Good(n, edits) /\ SameFile(main, n) /\ (Watches(main) => Watches(n))
    BY <1>1, <1>5, WaitGood
  <2> QED
    BY <1>2, <2>1 DEF GoodNext, IInv, InFlight, SameFile
<1> QED
  BY <1>2, <1>3, <1>4, <1>5 DEF QmlReads, QmlWaits, Preloads, Runs, Calls, Becomes

\* watchChanges is set while there is no file, if that can be counted on.
LEMMA WatchChangesKeeps ==
    ASSUME IInv, NEW watch \in BOOLEAN, WatchChanges(watch)
    PROVE  GoodNext
<1>1. /\ main' = UpdateWatchedFiles([main EXCEPT !.view.watch = watch])
      /\ Trusted => main.view.target = NoPath
  BY DEF WatchChanges, Calls, Becomes, Trusted
<1>2. PICK m : m = [main EXCEPT !.view.watch = watch]
  OBVIOUS
<1>3. Good(main, edits) /\ Sound(main) /\ main \in Mains
  BY DEF IInv, Good, Sound
<1>4. /\ m \in Mains /\ Beside(main, m) /\ m.view.target = main.view.target
      /\ m.view.live = main.view.live /\ m.view.write = main.view.write
      /\ m.view.path = main.view.path /\ m.view.prepared = main.view.prepared
  <2>1. m \in Mains
    BY <1>2, <1>3 DEF Mains, Views
  <2>2. /\ Beside(main, m) /\ m.view.target = main.view.target
        /\ m.view.live = main.view.live /\ m.view.write = main.view.write
        /\ m.view.path = main.view.path /\ m.view.prepared = main.view.prepared
    BY <1>2, <1>3 DEF Mains, Views, Beside
  <2> QED
    BY <2>1, <2>2
<1>5. Good(m, edits)
  <2>1. Sound(m)
    BY <1>3, <1>4 DEF Sound, LiveIsOpen, PathShown, WritesLive, OpsNamed, Beside
  <2>2. Trusted => Shown(m, edits)
    BY <1>1, <1>3, <1>4, SoundLive, Constants DEF Shown, LiveIs
  <2>3. care = Cares => Recorded(m)
    BY <1>3, <1>4 DEF Good, Recorded, LiveIs, Beside
  <2> QED
    BY <2>1, <2>2, <2>3 DEF Good
<1>6. PICK n : n = main'
  OBVIOUS
<1>7. n = UpdateWatchedFiles(m) /\ (Trusted => m.view.target = NoPath)
  BY <1>1, <1>2, <1>4, <1>6
<1>8. Good(n, edits) /\ Watches(n) /\ n.view = m.view
  BY <1>5, <1>7, WatchFacts
<1> QED
  BY <1>6, <1>7, <1>8 DEF GoodNext, InFlight

LEMMA FileChangedGood ==
    ASSUME IInv, NEW m \in Mains, m.view = main.view, m.ops = main.ops, m.disk = main.disk,
           m.asked = main.asked, NEW u \in FileChangedHandler(m)
    PROVE  Good(u, edits) /\ (Trusted => Watches(u) /\ InFlight(u))
<1>1. PICK n : n = [m EXCEPT !.view.prepared = FALSE]
  OBVIOUS
<1>2. Good(main, edits)
  BY DEF IInv
<1>3. /\ Sound(m) /\ (care = Cares => Recorded(m))
      /\ Good(n, edits) /\ SameFile(main, n) /\ ~n.view.prepared
  BY <1>1, <1>2, UnpreparedGood
<1>4. CASE u \in UpdatePath(m)
  <2>1. m.view.target = n.view.target /\ (Trusted => InFlight(n))
    BY <1>3 DEF SameFile, InFlight, IInv
  <2> QED
    BY <1>1, <1>3, <1>4, <2>1, UpdatePathGood
<1>5. CASE u \notin UpdatePath(m)
  BY <1>3, <1>5 DEF FileChangedHandler, Good, Trusted
<1> QED
  BY <1>4, <1>5

LEMMA RewatchFacts ==
    ASSUME NEW m \in Mains
    PROVE  LET n == Rewatch(m)
           IN  /\ n \in Mains /\ n.view = m.view /\ n.ops = m.ops /\ n.disk = m.disk
               /\ n.asked = m.asked
BY DEF Rewatch, Mains

LEMMA NoticesFacts ==
    ASSUME NEW m \in Mains, NEW notice
    PROVE  LET n == [m EXCEPT !.notices = @ \ {notice}]
           IN  /\ n \in Mains /\ n.view = m.view /\ n.ops = m.ops /\ n.disk = m.disk
               /\ n.asked = m.asked /\ n.watcher = m.watcher
               /\ n.notices = m.notices \ {notice}
<1> DEFINE n == [m EXCEPT !.notices = @ \ {notice}]
<1>1. n \in Mains
  BY DEF Mains
<1>2. /\ n.view = m.view /\ n.ops = m.ops /\ n.disk = m.disk /\ n.asked = m.asked
      /\ n.watcher = m.watcher /\ n.notices = m.notices \ {notice}
  BY DEF Mains
<1> QED
  BY <1>1, <1>2

LEMMA OnWatchedFileChangedKeeps ==
    ASSUME IInv, OnWatchedFileChanged
    PROVE  GoodNext
<1>1. main' \in FileChangedHandler(Rewatch([main EXCEPT !.notices = @ \ {"file"}]))
  BY DEF OnWatchedFileChanged, Runs, Becomes
<1>2. PICK m : m = [main EXCEPT !.notices = @ \ {"file"}]
  OBVIOUS
<1>3. main \in Mains
  BY DEF IInv, Good, Sound
<1>4. /\ m \in Mains /\ m.view = main.view /\ m.ops = main.ops /\ m.disk = main.disk
      /\ m.asked = main.asked
  BY <1>2, <1>3, NoticesFacts
<1>5. PICK k : k = Rewatch(m)
  OBVIOUS
<1>6. /\ k \in Mains /\ k.view = main.view /\ k.ops = main.ops /\ k.disk = main.disk
      /\ k.asked = main.asked
  BY <1>4, <1>5, RewatchFacts
<1>7. PICK u : u = main'
  OBVIOUS
<1>8. Good(u, edits) /\ (Trusted => Watches(u) /\ InFlight(u))
  BY <1>1, <1>2, <1>5, <1>6, <1>7, FileChangedGood
<1> QED
  BY <1>7, <1>8 DEF GoodNext

\* A change of the directory that is not reloaded for is of a file that does
\* not exist, or there is another change to tell of.
LEMMA OnWatchedDirectoryChangedKeeps ==
    ASSUME IInv, OnWatchedDirectoryChanged
    PROVE  GoodNext
<1>1. PICK m : m = [main EXCEPT !.notices = @ \ {"directory"}]
  OBVIOUS
<1>2. /\ "directory" \in main.notices
      /\ main' \in IF m.watcher = "file" \/ m.disk[m.view.target] = Absent THEN {m}
                   ELSE FileChangedHandler(Rewatch(m))
  BY <1>1 DEF OnWatchedDirectoryChanged, Runs, Becomes
<1>3. Good(main, edits) /\ Sound(main) /\ main \in Mains
  BY DEF IInv, Good, Sound
<1>4. /\ m \in Mains /\ m.view = main.view /\ m.ops = main.ops /\ m.disk = main.disk
      /\ m.asked = main.asked /\ m.watcher = main.watcher
      /\ m.notices = main.notices \ {"directory"}
  BY <1>1, <1>3, NoticesFacts
<1>5. PICK u : u = main'
  OBVIOUS
<1>6. CASE m.watcher = "file" \/ m.disk[m.view.target] = Absent
  <2>1. u = m
    BY <1>2, <1>5, <1>6
  <2>2. Sound(m)
    BY <1>3, <1>4 DEF Sound, LiveIsOpen, PathShown, WritesLive, OpsNamed
  <2>3. ASSUME Trusted
        PROVE  Shown(m, edits) /\ Watches(m) /\ InFlight(m)
    <3>1. Shown(main, edits) /\ Watches(main) /\ InFlight(main)
      BY <1>3, <2>3 DEF Good, IInv
    <3>2. main.view.watch /\ main.view.target # NoPath =>
              /\ main.disk[main.view.target] = Absent
              /\ "file" \in main.notices /\ "file" \in m.notices
      BY <1>2, <1>4, <1>6, <3>1 DEF Watches
    <3> QED
      BY <1>4, <3>1, <3>2 DEF Shown, LiveIs, Watches, InFlight
  <2>4. care = Cares => Recorded(m)
    BY <1>3, <1>4 DEF Good, Recorded, LiveIs
  <2> QED
    BY <1>5, <2>1, <2>2, <2>3, <2>4 DEF GoodNext, Good
<1>7. CASE ~(m.watcher = "file" \/ m.disk[m.view.target] = Absent)
  <2>1. PICK k : k = Rewatch(m)
    OBVIOUS
  <2>2. /\ k \in Mains /\ k.view = main.view /\ k.ops = main.ops /\ k.disk = main.disk
        /\ k.asked = main.asked
    BY <1>4, <2>1, RewatchFacts
  <2>3. Good(u, edits) /\ (Trusted => Watches(u) /\ InFlight(u))
    BY <1>2, <1>5, <1>7, <2>1, <2>2, FileChangedGood
  <2> QED
    BY <1>5, <2>3 DEF GoodNext
<1> QED
  BY <1>6, <1>7

\* An edit is told of, or the file is not watched.
LEMMA OthersEditKeeps ==
    ASSUME IInv, NEW path \in Paths, NEW content \in Contents, OthersEdit(path, content)
    PROVE  Good(main', edits + 1) /\ (Trusted => Watches(main') /\ InFlight(main'))
<1>1. PICK renamed \in BOOLEAN :
          main' = [Written(main, path, content, renamed) EXCEPT !.asked[path] = NoText]
  BY DEF OthersEdit
<1>2. /\ Trusted => Idle(main) /\ (content = Absent => main.notices = {})
      /\ content = Absent => main.disk[path] # Absent
      /\ edits \in Nat
  BY DEF OthersEdit, Trusted, IInv
<1>3. Good(main, edits) /\ Sound(main) /\ main \in Mains
  BY DEF IInv, Good, Sound
<1>4. PICK n : n = Written(main, path, content, renamed)
  OBVIOUS
<1>5. /\ n \in Mains
      /\ n.view = main.view /\ n.ops = main.ops /\ n.asked = main.asked
      /\ n.disk[path] = content
      /\ \A q \in Paths : q # path => n.disk[q] = main.disk[q]
      /\ main.notices \subseteq n.notices
      /\ path # main.view.target => n.notices = main.notices /\ n.watcher = main.watcher
      /\ content # Absent /\ Watches(main) => Watches(n)
  BY <1>3, <1>4, WrittenFacts
<1>6. PICK x : x = main'
  OBVIOUS
<1>7. /\ x \in Mains /\ x.view = main.view /\ x.ops = main.ops /\ x.disk = n.disk
      /\ x.watcher = n.watcher /\ x.notices = n.notices
      /\ x.asked[path] = NoText /\ \A q \in Paths : q # path => x.asked[q] = main.asked[q]
  <2>1. x = [n EXCEPT !.asked = [n.asked EXCEPT ![path] = NoText]]
    BY <1>1, <1>4, <1>6
  <2>2. [n.asked EXCEPT ![path] = NoText] \in [Paths -> Texts \cup {NoText}]
    BY <1>5 DEF Mains
  <2>3. x \in Mains
    BY <1>5, <2>1, <2>2 DEF Mains
  <2>4. /\ x.view = main.view /\ x.ops = main.ops /\ x.disk = n.disk
        /\ x.watcher = n.watcher /\ x.notices = n.notices
        /\ x.asked = [main.asked EXCEPT ![path] = NoText]
    BY <1>5, <2>1 DEF Mains
  <2> QED
    BY <1>3, <2>3, <2>4 DEF Mains
<1>8. Sound(x)
  BY <1>3, <1>7 DEF Sound, LiveIsOpen, PathShown, WritesLive, OpsNamed
<1>9. Trusted => main.view.live = 0
  BY <1>2, <1>3 DEF Sound, LiveIsOpen, Idle
<1>10. ASSUME Trusted, path = main.view.target, main.view.watch
       PROVE  /\ main.watcher \in {"directory", "file"}
              /\ main.watcher = "directory" =>
                     main.disk[path] = Absent \/ "directory" \in main.notices
              /\ main.watcher = "file" => "file" \in n.notices
              /\ n.notices # {}
              /\ content = Absent => /\ n.watcher = "directory"
                                     /\ {"file", "directory"} \subseteq n.notices
  <2>1. path # NoPath /\ Watches(main)
    BY <1>10, Constants DEF IInv
  <2>2. /\ main.watcher \in {"directory", "file"}
        /\ main.watcher = "directory" =>
               main.disk[path] = Absent \/ "directory" \in main.notices
    BY <1>3, <1>10, <2>1 DEF Watches, Mains
  <2> DEFINE new == renamed \/ main.disk[path] = Absent \/ content = Absent
  <2>3. /\ n.watcher = IF new THEN "directory" ELSE main.watcher
        /\ n.notices = main.notices \cup (IF main.watcher = "file" THEN {"file"} ELSE {})
                                    \cup (IF new THEN {"directory"} ELSE {})
    BY <1>3, <1>4, <1>10, <2>2 DEF Written, Mains
  <2> QED
    BY <1>2, <1>10, <2>2, <2>3
<1>11. ASSUME Trusted
       PROVE  Shown(x, edits + 1)
  <2>1. ~LiveIs(x, "read") /\ x.view.live = 0
    BY <1>7, <1>9, <1>11 DEF LiveIs
  <2>2. SUFFICES ASSUME main.view.prepared, main.view.target # NoPath,
                        main.view.watch, n.notices = {}
                 PROVE  main.view.data = Text(n.disk[main.view.target])
    BY <1>2, <1>7, <2>1 DEF Shown
  <2>3. main.view.target # path /\ main.view.target \in Paths
    BY <1>3, <1>10, <1>11, <2>2 DEF Mains, Views, AnyPath
  <2>4. main.view.data = Text(main.disk[main.view.target])
    BY <1>3, <1>5, <1>9, <1>11, <2>2 DEF Good, Shown
  <2> QED
    BY <1>5, <2>3, <2>4
<1>12. ASSUME Trusted
       PROVE  Watches(x)
  <2>1. Watches(main)
    BY <1>12 DEF IInv
  <2>2. CASE content # Absent
    BY <1>5, <1>7, <2>1, <2>2 DEF Watches
  <2>3. CASE path # main.view.target
    <3>1. main.view.target # NoPath => main.view.target \in Paths
      BY <1>3 DEF Mains, Views, AnyPath
    <3> QED
      BY <1>5, <1>7, <2>1, <2>3, <3>1 DEF Watches
  <2>4. CASE content = Absent /\ path = main.view.target
    BY <1>7, <1>10, <1>12, <2>4 DEF Watches
  <2> QED
    BY <2>2, <2>3, <2>4
<1>13. ASSUME care = Cares
       PROVE  Recorded(x)
  <2>1. Recorded(main) /\ main.view.live = 0
    BY <1>3, <1>9, <1>13 DEF Good, Trusted, Cares
  <2> QED
    BY <1>5, <1>7, <2>1 DEF Recorded, LiveIs
<1>14. Trusted => InFlight(x)
  BY <1>7 DEF IInv, InFlight
<1> QED
  BY <1>6, <1>8, <1>11, <1>12, <1>13, <1>14 DEF Good

-----------------------------------------------------------------------------
(* The theorems about file views.                                          *)

LEMMA InitHolds == Init => IInv
<1> SUFFICES ASSUME Init PROVE IInv
  OBVIOUS
<1>1. PICK disk \in [Paths -> Contents] :
          main = [view |-> [target |-> NoPath, inFlight |-> NoPath, path |-> NoPath,
                            data |-> Empty, write |-> Empty, live |-> 0, prepared |-> FALSE,
                            watch |-> FALSE],
                  ops |-> <<>>, disk |-> disk, watcher |-> "none", notices |-> {},
                  asked |-> [p \in Paths |-> NoText]]
  BY DEF Init, Contents
<1>2. main \in Mains
  BY <1>1, Constants DEF Mains, Views, AnyPath
<1>3. /\ main.view.live = 0 /\ main.view.target = NoPath /\ ~main.view.prepared
      /\ main.view.write = Empty /\ main.ops = <<>>
      /\ \A p \in Paths : main.asked[p] = NoText
  BY <1>1
<1>4. Sound(main)
  BY <1>2, <1>3 DEF Sound, LiveIsOpen, PathShown, WritesLive, OpsNamed
<1>5. Shown(main, edits) /\ Recorded(main) /\ Watches(main) /\ InFlight(main)
  BY <1>3 DEF Shown, Recorded, Watches, InFlight, LiveIs
<1>6. care \subseteq Cares /\ calls \in 0..MaxCalls /\ edits \in 0..MaxEdits
  BY Constants, ConstantsAssumption DEF Init, Cares
<1> QED
  BY <1>4, <1>5, <1>6 DEF IInv, Good

LEMMA NextKeeps == IInv /\ [Next]_vars => IInv'
<1> SUFFICES ASSUME IInv, [Next]_vars PROVE IInv'
  OBVIOUS
<1>1. care \subseteq Cares /\ calls \in 0..MaxCalls /\ edits \in 0..MaxEdits
  BY DEF IInv
<1>2. ASSUME GoodNext, UNCHANGED <<care, edits>>,
             UNCHANGED calls \/ (calls < MaxCalls /\ calls' = calls + 1)
      PROVE  IInv'
  <2>1. calls' \in 0..MaxCalls
    BY <1>1, <1>2, Constants
  <2> QED
    BY <1>1, <1>2, <2>1
    DEF IInv, GoodNext, Good, Sound, PathShown, WritesLive, Trusted, Recorded, Shown
<1>3. ASSUME NEW i \in DOMAIN main.ops, WriterOpens(i)
      PROVE  IInv'
  BY <1>2, <1>3, WriterOpensKeeps DEF WriterOpens, Runs
<1>4. ASSUME NEW i \in DOMAIN main.ops, OperationRuns(i)
      PROVE  IInv'
  BY <1>2, <1>4, OperationRunsKeeps DEF OperationRuns, Runs
<1>5. ASSUME NEW i \in DOMAIN main.ops, OperationFinished(i)
      PROVE  IInv'
  BY <1>2, <1>5, OperationFinishedKeeps DEF OperationFinished, Runs
<1>6. ASSUME NEW path \in Paths \cup {NoPath}, SetPath(path)
      PROVE  IInv'
  BY <1>2, <1>6, SetPathKeeps DEF SetPath, Calls, AnyPath
<1>7. ASSUME NEW text \in Texts, QmlSetsText(text)
      PROVE  IInv'
  BY <1>2, <1>7, QmlSetsTextKeeps DEF QmlSetsText, Calls
<1>8. ASSUME Reload
      PROVE  IInv'
  BY <1>2, <1>8, ReloadKeeps DEF Reload, Calls
<1>9. ASSUME QmlReads \/ QmlWaits \/ Preloads
      PROVE  IInv'
  BY <1>2, <1>9, LoadsKeep DEF QmlReads, QmlWaits, Preloads, Calls, Runs
<1>10. ASSUME NEW watch \in BOOLEAN, WatchChanges(watch)
       PROVE  IInv'
  BY <1>2, <1>10, WatchChangesKeeps DEF WatchChanges, Calls
<1>11. ASSUME OnWatchedFileChanged
       PROVE  IInv'
  BY <1>2, <1>11, OnWatchedFileChangedKeeps DEF OnWatchedFileChanged, Runs
<1>12. ASSUME OnWatchedDirectoryChanged
       PROVE  IInv'
  BY <1>2, <1>12, OnWatchedDirectoryChangedKeeps DEF OnWatchedDirectoryChanged, Runs
<1>13. ASSUME NEW path \in Paths, NEW content \in Texts \cup {Absent}, OthersEdit(path, content)
       PROVE  IInv'
  <2>1. Good(main', edits + 1) /\ (Trusted => Watches(main') /\ InFlight(main'))
    BY <1>13, OthersEditKeeps DEF Contents
  <2>2. edits < MaxEdits /\ edits' = edits + 1 /\ UNCHANGED <<care, calls>>
    BY <1>13 DEF OthersEdit
  <2>3. edits' \in 0..MaxEdits
    BY <1>1, <2>2, Constants
  <2> QED
    BY <1>1, <2>1, <2>2, <2>3 DEF IInv, Good, Sound, PathShown, WritesLive, Trusted, Recorded, Shown
<1>14. CASE UNCHANGED vars
  BY <1>14
  DEF vars, IInv, Good, Sound, LiveIsOpen, PathShown, WritesLive, OpsNamed, Trusted,
      Shown, Recorded, Watches, InFlight, LiveIs
<1> QED
  BY <1>3, <1>4, <1>5, <1>6, <1>7, <1>8, <1>9, <1>10, <1>11, <1>12, <1>13, <1>14
  DEF Next, PoolNext, QmlNext

LEMMA FileViewInv == Spec => []IInv
BY InitHolds, NextKeeps, PTL DEF Spec

\* The members of the view and of its operations have the values their types
\* give them, and the live operation is one of them (io/fileview.hpp).
THEOREM FileViewTypeCorrect == Spec => []TypeOK
<1>1. IInv => TypeOK
  <2> SUFFICES ASSUME IInv PROVE TypeOK
    OBVIOUS
  <2>1. main \in Mains /\ care \subseteq Cares /\ calls \in 0..MaxCalls /\ edits \in 0..MaxEdits
    BY DEF IInv, Good, Sound
  <2>2. main.view.live \in 0..Len(main.ops)
    <3>1. main.view.live # 0 => main.view.live \in 1..Len(main.ops)
      BY <2>1, LenProperties DEF IInv, Good, Sound, LiveIsOpen, Mains
    <3>2. Len(main.ops) \in Nat
      BY <2>1, LenProperties DEF Mains
    <3> QED
      BY <3>1, <3>2
  <2>3. main.view \in [target : Paths \cup {NoPath}, inFlight : Paths \cup {NoPath},
                       path : Paths \cup {NoPath}, data : Texts, write : Texts,
                       live : 0..Len(main.ops), prepared : BOOLEAN, watch : BOOLEAN]
    BY <2>1, <2>2 DEF Mains, Views, AnyPath
  <2> QED
    BY <2>1, <2>3 DEF TypeOK, Mains, Operations, States, Phases, AnyPath, Contents
<1> QED
  BY <1>1, FileViewInv, PTL

\* Whatever paths are set, reloaded and cancelled while operations end on the
\* pool: the view waits for an operation of its path and, while no handler sets
\* a text, counts as loaded what is of its path.
THEOREM ViewShowsItsPath == Spec => []ResultsAreOfPath
<1>1. IInv => ResultsAreOfPath
  BY DEF IInv, Good, Sound, LiveIsOpen, PathShown, ResultsAreOfPath
<1> QED
  BY <1>1, FileViewInv, PTL

\* While no handler sets a text, a write that is under way is the live
\* operation: nothing is started in the middle of it.
THEOREM ViewWritesAlone == Spec => []OneWriter
<1>1. IInv => OneWriter
  BY DEF IInv, Good, Sound, WritesLive, Writes, OneWriter
<1> QED
  BY <1>1, FileViewInv, PTL

\* The last text that QML set with care is in the file when nothing is under
\* way any more.
THEOREM ViewKeepsTexts == Spec => []SetIsKept
<1>1. IInv => SetIsKept
  <2> SUFFICES ASSUME IInv, care = Cares, Idle(main) PROVE Kept
    BY DEF SetIsKept
  <2>1. Recorded(main) /\ main.view.live = 0
    BY DEF IInv, Good, Sound, LiveIsOpen, Idle
  <2> QED
    BY <2>1 DEF Recorded, LiveIs, Kept
<1> QED
  BY <1>1, FileViewInv, PTL

\* A view that reloads a watched file when it is told of a change shows what
\* the file holds when there is no more to tell and nothing under way.
THEOREM ViewIsFresh == Spec => []Fresh
<1>1. IInv => Fresh
  <2> SUFFICES ASSUME IInv, Trusted, Idle(main), main.notices = {}, main.view.prepared,
                      main.view.watch, main.view.target # NoPath
               PROVE  main.view.data = Text(main.disk[main.view.target])
    BY DEF Fresh, Trusted
  <2>1. Shown(main, edits) /\ main.view.live = 0
    BY DEF IInv, Good, Sound, LiveIsOpen, Idle
  <2> QED
    BY <2>1 DEF Shown
<1> QED
  BY <1>1, FileViewInv, PTL

-----------------------------------------------------------------------------
(* Lazy loading: the constants and variables of LazyLoader.                *)


-----------------------------------------------------------------------------
(* Lazy loading: the strengthening.                                        *)

Items == Components \cup Sources \cup {None}

Loaders == [item : Items, component : Items, source : Sources \cup {None}, cleanup : BOOLEAN,
            targetLoading : BOOLEAN, targetActive : BOOLEAN, reloadComplete : BOOLEAN,
            incubator : {"none", "loading", "freed"}, loads : Items, left : 0..Steps,
            outcome : {"defined", "undefined"}]

\* A load in the background has steps left, is of an item, and is not waited for.
LoadsInBackground(l) ==
    /\ l.left > 0 <=> l.incubator = "loading"
    /\ l.incubator = "loading" => l.loads # None /\ ~l.targetActive

\* What loads or is loaded began to after the reload.
BeginsAfterReload(l) == l.item # None \/ l.incubator # "none" => l.reloadComplete

Settled(l) == l.item # None => l.targetActive /\ ~l.targetLoading /\ l.incubator = "none"

Owned(l) == /\ l.source # None => l.cleanup
            /\ l.cleanup => l.component \in {l.source, None}

\* A patient QML's loader loads its one component, and fails only if that does.
LoadsComponent(l) == /\ l.incubator = "loading" => l.loads = l.component
                     /\ l.incubator = "freed" => l.component \in Broken

Wanted(l) ==
    /\ l.reloadComplete /\ l.component \notin Broken \cup {None}
    /\ l.targetActive \/ l.targetLoading
    => l.item # None \/ l.incubator = "loading"

\* What holds of the members of a loader at the end of each call.
Consistent(l) == /\ l \in Loaders
                 /\ LoadsInBackground(l) /\ BeginsAfterReload(l) /\ Settled(l) /\ Owned(l)
                 /\ patient => LoadsComponent(l) /\ Wanted(l)

\* The controller follows the render loop exactly while there is a window.
ControllerFollows == /\ ctl.follow <=> scene.window
                     /\ scene.exposed => scene.window

LoaderInv ==
    /\ Consistent(loader)
    /\ ctl \in [follow : BOOLEAN, timer : BOOLEAN, queued : BOOLEAN]
    /\ scene \in [window : BOOLEAN, exposed : BOOLEAN, animating : BOOLEAN]
    /\ patient \in BOOLEAN
    /\ ControllerFollows
    /\ NoLostWakeup

-----------------------------------------------------------------------------
LEMMA StepsFacts ==
    Steps \in Nat /\ 0 \in 0..Steps /\ Steps \in 0..Steps /\ Steps # 0
BY LoaderAssumption

-----------------------------------------------------------------------------
(* Types of the methods of LazyLoader.                                     *)

\* An item that is set is an item of the loader's, and wanted if there is one.
LEMMA SetItemType ==
    ASSUME NEW l \in Loaders, NEW item \in Items
    PROVE  SetItem(l, item) \in Loaders
<1>1. \A b \in BOOLEAN : [l EXCEPT !.item = item, !.targetActive = b] \in Loaders
  BY DEF Loaders
<1> QED
  BY <1>1, (item # None) \in BOOLEAN DEF SetItem

LEMMA SetInactiveType ==
    ASSUME NEW l \in Loaders
    PROVE  SetInactive(l) \in Loaders
<1>1. [l EXCEPT !.targetActive = FALSE] \in Loaders /\ None \in Items
  BY DEF Loaders, Items
<1> QED
  BY <1>1, SetItemType DEF SetInactive

LEMMA EndsType ==
    ASSUME NEW l \in Loaders, NEW off \in BOOLEAN
    PROVE  LoadIsOver(l, off) \in Loaders
<1>1. Failed(l) \in Loaders
  BY StepsFacts DEF Failed, Loaders
<1>2. Completed(l, off) \in Loaders
  <2> DEFINE t == SetItem(l, l.loads)
             u == IF off THEN SetInactive(t) ELSE t
  <2>1. u \in Loaders
    BY SetItemType, SetInactiveType DEF Loaders
  <2>2. [u EXCEPT !.incubator = "none", !.left = 0, !.targetLoading = FALSE] \in Loaders
    <3> HIDE DEF u
    <3> QED
      BY <2>1, StepsFacts DEF Loaders
  <2> QED
    BY <2>2 DEF Completed
<1> QED
  BY <1>1, <1>2 DEF LoadIsOver

LEMMA ForceCompletionType ==
    ASSUME NEW l \in Loaders, NEW off \in BOOLEAN
    PROVE  Undefined(l) \in Loaders /\ ForceCompletion(l, off) \in Loaders
<1>1. Undefined(l) \in Loaders
  BY DEF Undefined, Loaders
<1> QED
  BY <1>1, EndsType DEF ForceCompletion

LEMMA IncubateIfReadyType ==
    ASSUME NEW l \in Loaders, NEW reloads \in BOOLEAN, NEW off \in BOOLEAN
    PROVE  IncubateIfReady(l, reloads, off) \in Loaders
<1> DEFINE t == [l EXCEPT !.incubator = "loading", !.loads = l.component, !.left = Steps]
<1>1. t \in Loaders
  BY StepsFacts DEF Loaders
<1> HIDE DEF t
<1>2. LoadIsOver(t, off) \in Loaders
  BY <1>1, EndsType
<1> QED
  BY <1>1, <1>2 DEF IncubateIfReady, t

LEMMA SetActiveType ==
    ASSUME NEW l \in Loaders, NEW off \in BOOLEAN
    PROVE  SetActive(l, off) \in Loaders /\ Item(l, off) \in Loaders
<1>1. [l EXCEPT !.targetActive = TRUE] \in Loaders
  BY DEF Loaders
<1>2. SetActive(l, off) \in Loaders
  BY <1>1, ForceCompletionType, IncubateIfReadyType DEF SetActive
<1> QED
  BY <1>2 DEF Item

LEMMA SetLoadingType ==
    ASSUME NEW l \in Loaders, NEW loading \in BOOLEAN, NEW off \in BOOLEAN
    PROVE  SetLoading(l, loading, off) \in Loaders
<1> DEFINE t == [l EXCEPT !.targetLoading = loading]
<1>1. t \in Loaders
  BY DEF Loaders
<1> HIDE DEF t
<1>2. [t EXCEPT !.incubator = "none", !.left = 0] \in Loaders
  BY <1>1, StepsFacts DEF Loaders
<1> QED
  BY <1>1, <1>2, ForceCompletionType, IncubateIfReadyType DEF SetLoading, t

LEMMA SetSourceType ==
    ASSUME NEW l \in Loaders, NEW c \in Components \cup {None}, NEW s \in Sources \cup {None}
    PROVE  SetComponent(l, c) \in Loaders /\ SetSource(l, s) \in Loaders
<1>1. ClearSource(l) \in Loaders
  <2>1. \A c1, c2 \in {None} : [l EXCEPT !.source = c1, !.component = c2] \in Loaders
    BY DEF Loaders, Items
  <2> QED
    BY <2>1 DEF ClearSource
<1>2. \A m \in Loaders, d \in Items : [m EXCEPT !.component = d, !.cleanup = FALSE] \in Loaders
  BY DEF Loaders
<1>3. \A m \in Loaders, d \in Items :
          [m EXCEPT !.cleanup = TRUE, !.source = s, !.component = d] \in Loaders
  BY DEF Loaders
<1>4. \A d \in Components \cup {None} : SetComponent(l, d) \in Loaders
  BY <1>1, <1>2 DEF SetComponent, Items
<1>5. (IF s \in Missing THEN None ELSE s) \in Items
  BY DEF Items
<1> QED
  BY <1>3, <1>4, <1>5 DEF SetSource

-----------------------------------------------------------------------------
(* What the methods of LazyLoader keep.                                    *)

\* A loader once it is reloaded, which it is at the end of the call that does so.
Complete(l) == [l EXCEPT !.reloadComplete = TRUE]

LEMMA CompleteFacts ==
    ASSUME NEW l \in Loaders
    PROVE  Complete(l) \in Loaders /\ (l.reloadComplete => Complete(l) = l)
BY DEF Complete, Loaders

\* A patient QML sets the component before the reload.
MaySet(l) == patient => ~l.reloadComplete /\ l.component = None

LEMMA SetInactiveConsistent ==
    ASSUME NEW l, Consistent(l)
    PROVE  Consistent(SetInactive(l))
BY SetInactiveType, StepsFacts DEF Consistent, LoadsInBackground, BeginsAfterReload,
   Settled, Owned, LoadsComponent, Wanted, SetInactive, SetItem, Loaders

\* A load that ends, in whatever call, leaves an item, or none and an incubator
\* that is freed.
LEMMA EndsConsistent ==
    ASSUME NEW l \in Loaders, l.item = None, l.loads # None, Owned(l),
           patient => l.loads = l.component, NEW off \in Offs
    PROVE  /\ Consistent(Complete(LoadIsOver(l, off)))
           /\ LoadIsOver(l, off).reloadComplete = l.reloadComplete
<1>1. off \in BOOLEAN /\ (patient => ~off)
  BY DEF Offs
<1>2. CASE l.loads \in Broken
  <2> DEFINE r == Complete(Failed(l))
  <2>1. Failed(l) \in Loaders
    BY <1>1, <1>2, EndsType DEF LoadIsOver
  <2>2. Failed(l).reloadComplete = l.reloadComplete
    BY DEF Failed, Loaders
  <2>3. /\ r \in Loaders
        /\ r.item = None /\ r.incubator = "freed" /\ r.left = 0 /\ ~r.targetLoading
        /\ r.reloadComplete /\ r.component = l.component /\ r.source = l.source
        /\ r.cleanup = l.cleanup
    BY <2>1, CompleteFacts DEF Failed, Complete, Loaders
  <2> HIDE DEF r
  <2>4. Consistent(r)
    BY <1>1, <1>2, <2>3 DEF Consistent, LoadsInBackground, BeginsAfterReload, Settled, Owned,
       LoadsComponent, Wanted
  <2> QED
    BY <1>2, <2>2, <2>4 DEF LoadIsOver, r
<1>3. CASE l.loads \notin Broken
  <2> DEFINE c == Completed(l, off)
             r == Complete(c)
  <2>1. c \in Loaders
    BY <1>1, <1>3, EndsType DEF LoadIsOver
  <2>2. /\ off => c.item = None
        /\ ~off => c.item = l.loads /\ c.targetActive
        /\ c.incubator = "none" /\ c.left = 0 /\ ~c.targetLoading
        /\ c.reloadComplete = l.reloadComplete /\ c.component = l.component
        /\ c.source = l.source /\ c.cleanup = l.cleanup
    <3>1. CASE off
      BY <1>1, <3>1 DEF Completed, SetInactive, SetItem, Loaders
    <3>2. CASE ~off
      BY <1>1, <3>2 DEF Completed, SetInactive, SetItem, Loaders
    <3> QED
      BY <3>1, <3>2
  <2> HIDE DEF c
  <2>3. /\ r \in Loaders /\ r.reloadComplete
        /\ r.item = c.item /\ r.targetActive = c.targetActive /\ r.incubator = c.incubator
        /\ r.left = c.left /\ r.targetLoading = c.targetLoading /\ r.component = c.component
        /\ r.source = c.source /\ r.cleanup = c.cleanup
    BY <2>1, CompleteFacts DEF Complete, Loaders
  <2> HIDE DEF r
  <2>4. Consistent(r)
    BY <1>1, <1>3, <2>2, <2>3 DEF Consistent, LoadsInBackground, BeginsAfterReload, Settled,
                                  Owned,
       LoadsComponent, Wanted
  <2> QED
    BY <1>3, <2>2, <2>4 DEF LoadIsOver, c, r
<1> QED
  BY <1>2, <1>3

LEMMA UndefinedConsistent ==
    ASSUME NEW l \in Loaders, l.incubator = "freed", l.item = None, l.left = 0,
           l.reloadComplete, Owned(l),
           patient => LoadsComponent(l)
    PROVE  Consistent(Undefined(l))
<1>1. Undefined(l) \in Loaders
  BY ForceCompletionType, TRUE \in BOOLEAN
<1> QED
  BY <1>1 DEF Undefined, Consistent, LoadsInBackground, BeginsAfterReload, Settled,
              Owned,
     LoadsComponent, Wanted, Loaders

\* A load that begins is left in the background, or ends if it is wanted at once.
LEMMA IncubateConsistent ==
    ASSUME NEW l \in Loaders, l.item = None, l.incubator = "none", Owned(l),
           l.component # None, l.targetActive \/ l.targetLoading, NEW reloads \in BOOLEAN,
           l.reloadComplete \/ reloads, NEW off \in Offs
    PROVE  LET r == IncubateIfReady(l, reloads, off)
           IN  /\ Consistent(Complete(r))
               /\ r.reloadComplete = l.reloadComplete
<1> DEFINE t == [l EXCEPT !.incubator = "loading", !.loads = l.component, !.left = Steps]
<1>1. /\ t \in Loaders
      /\ t.item = None /\ t.loads = l.component /\ t.component = l.component
      /\ t.incubator = "loading" /\ t.left = Steps /\ t.targetActive = l.targetActive
      /\ t.reloadComplete = l.reloadComplete /\ t.source = l.source /\ t.cleanup = l.cleanup
  BY StepsFacts DEF Loaders
<1>2. IncubateIfReady(l, reloads, off)
      = IF l.targetActive THEN LoadIsOver(t, off) ELSE t
  BY DEF IncubateIfReady, IsLoading
<1> HIDE DEF t
<1>3. Owned(t)
  BY <1>1 DEF Owned
<1>4. /\ Consistent(Complete(LoadIsOver(t, off)))
      /\ LoadIsOver(t, off).reloadComplete = t.reloadComplete
  BY <1>1, <1>3, EndsConsistent
<1>5. ~l.targetActive => Consistent(Complete(t))
  <2>1. Complete(t) \in Loaders
    BY <1>1, CompleteFacts
  <2> QED
    BY <1>1, <1>3, <2>1, StepsFacts DEF Complete, Consistent, LoadsInBackground,
                                        BeginsAfterReload,
       Settled, Owned, LoadsComponent, Wanted, Loaders
<1> QED
  BY <1>1, <1>2, <1>4, <1>5

LEMMA SetActiveConsistent ==
    ASSUME NEW l, Consistent(l), NEW off \in Offs
    PROVE  Consistent(SetActive(l, off)) /\ Consistent(Item(l, off))
<1> DEFINE t == [l EXCEPT !.targetActive = TRUE]
<1>1. /\ l \in Loaders /\ LoadsInBackground(l) /\ BeginsAfterReload(l) /\ Settled(l) /\ Owned(l)
      /\ patient => LoadsComponent(l)
      /\ off \in BOOLEAN
  BY DEF Consistent, Offs
<1>2. /\ t \in Loaders /\ t.targetActive
      /\ t.item = l.item /\ t.loads = l.loads /\ t.component = l.component
      /\ t.incubator = l.incubator /\ t.left = l.left
      /\ t.reloadComplete = l.reloadComplete /\ t.source = l.source /\ t.cleanup = l.cleanup
  BY <1>1 DEF Loaders
<1> HIDE DEF t
<1>3. Owned(t) /\ (patient => LoadsComponent(t))
  BY <1>1, <1>2 DEF Owned, LoadsComponent
<1>4. ASSUME ~l.targetActive PROVE Consistent(SetActive(l, off))
  <2>1. l.item = None /\ t.item = None
    BY <1>1, <1>2, <1>4 DEF Settled
  <2>2. CASE IsLoading(t)
    <3>1. t.reloadComplete /\ t.incubator \in {"loading", "freed"}
      BY <1>1, <1>2, <2>2 DEF IsLoading, BeginsAfterReload, Loaders
    <3>2. CASE t.incubator = "freed"
      <4>1. Consistent(Undefined(t))
        BY <1>1, <1>2, <1>3, <2>1, <3>1, <3>2, UndefinedConsistent
           DEF LoadsInBackground, Loaders
      <4> QED
        BY <1>4, <2>2, <3>2, <4>1 DEF SetActive, ForceCompletion, t
    <3>3. CASE t.incubator = "loading"
      <4>1. t.loads # None /\ (patient => t.loads = t.component)
        BY <1>1, <1>2, <3>3 DEF LoadsInBackground, LoadsComponent
      <4>2. /\ Consistent(Complete(LoadIsOver(t, off)))
            /\ LoadIsOver(t, off).reloadComplete = TRUE
        BY <1>2, <1>3, <2>1, <3>1, <4>1, EndsConsistent DEF Loaders
      <4>3. Consistent(LoadIsOver(t, off))
        BY <1>1, <1>2, <4>2, EndsType, CompleteFacts
      <4> QED
        BY <1>4, <2>2, <3>3, <4>3 DEF SetActive, ForceCompletion, t
    <3> QED
      BY <3>1, <3>2, <3>3
  <2>3. CASE ~IsLoading(t)
    <3> DEFINE r == IncubateIfReady(t, FALSE, off)
    <3>1. SetActive(l, off) = r
      BY <1>4, <2>1, <2>3 DEF SetActive, IsActive, t
    <3>2. CASE ~t.reloadComplete \/ t.component = None
      <4>1. r = t
        BY <3>2 DEF IncubateIfReady
      <4>2. Consistent(t)
        BY <1>1, <1>2, <1>3, <2>1, <2>3, <3>2
           DEF Consistent, LoadsInBackground, BeginsAfterReload,
           Settled, Wanted, IsLoading
      <4> QED
        BY <3>1, <4>1, <4>2
    <3>3. CASE t.reloadComplete /\ t.component # None
      <4>1. Consistent(Complete(r)) /\ r.reloadComplete
        BY <1>2, <1>3, <2>1, <2>3, <3>3, IncubateConsistent DEF IsLoading
      <4>2. r \in Loaders
        BY <1>1, <1>2, IncubateIfReadyType
      <4> QED
        BY <3>1, <4>1, <4>2, CompleteFacts
    <3> QED
      BY <3>2, <3>3
  <2> QED
    BY <2>2, <2>3
<1>5. Consistent(SetActive(l, off))
  BY <1>4 DEF SetActive
<1> QED
  BY <1>5 DEF Item

LEMMA SetLoadingConsistent ==
    ASSUME NEW l, Consistent(l), NEW loading \in BOOLEAN, NEW off \in Offs
    PROVE  Consistent(SetLoading(l, loading, off))
<1> DEFINE t == [l EXCEPT !.targetLoading = loading]
<1>1. /\ l \in Loaders /\ LoadsInBackground(l) /\ BeginsAfterReload(l) /\ Settled(l) /\ Owned(l)
      /\ patient => LoadsComponent(l) /\ Wanted(l)
      /\ off \in BOOLEAN
  BY DEF Consistent, Offs
<1>2. /\ t \in Loaders /\ t.targetLoading = loading /\ t.targetActive = l.targetActive
      /\ t.item = l.item /\ t.loads = l.loads /\ t.component = l.component
      /\ t.incubator = l.incubator /\ t.left = l.left
      /\ t.reloadComplete = l.reloadComplete /\ t.source = l.source /\ t.cleanup = l.cleanup
  BY <1>1 DEF Loaders
<1> HIDE DEF t
<1>3. Owned(t) /\ (patient => LoadsComponent(t))
  BY <1>1, <1>2 DEF Owned, LoadsComponent
<1>4. ASSUME loading # l.targetLoading, ~IsActive(l)
      PROVE  Consistent(SetLoading(l, loading, off))
  <2>1. l.item = None /\ t.item = None
    BY <1>2, <1>4 DEF IsActive
  <2>2. CASE loading
    <3> DEFINE r == IncubateIfReady(t, FALSE, off)
    <3>1. SetLoading(l, loading, off) = r
      BY <1>4, <2>2 DEF SetLoading, t
    <3>2. CASE ~t.reloadComplete \/ t.component = None \/ IsLoading(t)
      <4>1. r = t
        BY <3>2 DEF IncubateIfReady
      <4>2. Consistent(t)
        BY <1>1, <1>2, <1>3, <2>1, <3>2 DEF Consistent, LoadsInBackground, BeginsAfterReload,
           Settled, Wanted, IsLoading, Loaders, LoadsComponent
      <4> QED
        BY <3>1, <4>1, <4>2
    <3>3. CASE t.reloadComplete /\ t.component # None /\ ~IsLoading(t)
      <4>1. Consistent(Complete(r)) /\ r.reloadComplete
        BY <1>2, <1>3, <2>1, <2>2, <3>3, IncubateConsistent DEF IsLoading
      <4>2. r \in Loaders
        BY <1>1, <1>2, IncubateIfReadyType
      <4> QED
        BY <3>1, <4>1, <4>2, CompleteFacts
    <3> QED
      BY <3>2, <3>3
  <2>3. CASE ~loading /\ t.incubator = "freed"
    <3>1. Consistent(Undefined(t))
      BY <1>1, <1>2, <1>3, <2>1, <2>3, UndefinedConsistent
         DEF LoadsInBackground, BeginsAfterReload, Loaders
    <3> QED
      BY <1>4, <2>3, <3>1 DEF SetLoading, t
  <2>4. CASE ~loading /\ t.incubator # "freed"
    <3> DEFINE r == [t EXCEPT !.incubator = "none", !.left = 0]
    <3>1. /\ r \in Loaders /\ r.incubator = "none" /\ r.left = 0
          /\ r.item = None /\ r.targetActive = l.targetActive /\ ~r.targetLoading
          /\ r.component = l.component /\ r.reloadComplete = l.reloadComplete
          /\ r.source = l.source /\ r.cleanup = l.cleanup
      BY <1>2, <2>1, <2>4, StepsFacts DEF Loaders
    <3> HIDE DEF r
    <3>2. l.incubator = "loading" => ~l.targetActive
      BY <1>1 DEF LoadsInBackground
    <3>3. Consistent(r)
      BY <1>1, <1>2, <2>1, <2>4, <3>1, <3>2
         DEF Consistent, LoadsInBackground, BeginsAfterReload, Settled,
         Owned, LoadsComponent, Wanted
    <3> QED
      BY <1>4, <2>4, <3>3 DEF SetLoading, t, r
  <2> QED
    BY <2>2, <2>3, <2>4
<1> QED
  BY <1>4 DEF SetLoading

\* The component may change while a load is under way, unless QML is patient.
LEMMA SetSourceConsistent ==
    ASSUME NEW l, Consistent(l), MaySet(l),
           NEW c \in Components \cup {None}, NEW s \in Sources \cup {None}
    PROVE  Consistent(SetComponent(l, c)) /\ Consistent(SetSource(l, s))
<1>1. /\ l \in Loaders
      /\ SetComponent(l, c) \in Loaders /\ SetSource(l, s) \in Loaders
  BY SetSourceType DEF Consistent
<1>2. ASSUME NEW m \in Loaders, Owned(m), m.item = l.item, m.targetLoading = l.targetLoading,
             m.targetActive = l.targetActive, m.reloadComplete = l.reloadComplete,
             m.incubator = l.incubator, m.loads = l.loads, m.left = l.left
      PROVE  Consistent(m)
  BY <1>2 DEF Consistent, LoadsInBackground, BeginsAfterReload, Settled, LoadsComponent,
              Wanted, MaySet
<1> DEFINE Same(m) == /\ m.item = l.item /\ m.targetLoading = l.targetLoading
                      /\ m.targetActive = l.targetActive /\ m.reloadComplete = l.reloadComplete
                      /\ m.incubator = l.incubator /\ m.loads = l.loads /\ m.left = l.left
<1>3. \A d \in Components \cup {None} :
          Owned(SetComponent(l, d)) /\ Same(SetComponent(l, d))
  BY <1>1 DEF SetComponent, ClearSource, Owned, Consistent, Loaders
<1>4. Owned(SetSource(l, s)) /\ Same(SetSource(l, s))
  <2> DEFINE t == IF ~l.cleanup THEN SetComponent(l, None) ELSE l
  <2>1. t \in Loaders /\ Owned(t) /\ Same(t)
    BY <1>1, <1>3, SetSourceType DEF Consistent
  <2> HIDE DEF t
  <2>2. CASE s = t.source
    BY <2>1, <2>2 DEF SetSource, t
  <2>3. CASE s # t.source
    <3> DEFINE r == [t EXCEPT !.cleanup = TRUE, !.source = s,
                              !.component = IF s \in Missing THEN None ELSE s]
    <3>1. Owned(r) /\ Same(r)
      BY <2>1 DEF Owned, Loaders
    <3> QED
      BY <2>3, <3>1 DEF SetSource, t
  <2> QED
    BY <2>2, <2>3
<1> QED
  BY <1>1, <1>2, <1>3, <1>4

LEMMA ReloadConsistent ==
    ASSUME NEW l, Consistent(l), ~l.reloadComplete, NEW off \in Offs, NEW old \in BOOLEAN
    PROVE  LET r == IncubateIfReady(l, TRUE, off)
           IN  Consistent(Complete(IF old /\ IsLoading(r)
                                   THEN ForceCompletion(r, off) ELSE r))
<1> DEFINE r == IncubateIfReady(l, TRUE, off)
<1>1. l \in Loaders /\ Owned(l) /\ l.item = None /\ l.incubator = "none" /\ off \in BOOLEAN
  BY DEF Consistent, BeginsAfterReload, Offs
<1>2. r \in Loaders
  BY <1>1, IncubateIfReadyType
<1>3. CASE l.component = None \/ ~(l.targetLoading \/ l.targetActive)
  <2>1. r = l /\ ~IsLoading(r)
    BY <1>1, <1>3 DEF IncubateIfReady, IsLoading
  <2>2. Consistent(Complete(l))
    BY <1>1, <1>3, CompleteFacts DEF Complete, Consistent, LoadsInBackground,
                                     BeginsAfterReload, Settled,
       Owned, LoadsComponent, Wanted, Loaders
  <2> QED
    BY <2>1, <2>2
<1>4. CASE l.component # None /\ (l.targetLoading \/ l.targetActive)
  <2>1. Consistent(Complete(r))
    BY <1>1, <1>4, IncubateConsistent
  <2> HIDE DEF r
  <2>2. ASSUME IsLoading(r) PROVE Consistent(Complete(ForceCompletion(r, off)))
    <3> DEFINE c == Complete(r)
    <3>1. /\ Owned(c) /\ LoadsInBackground(c) /\ Settled(c) /\ (patient => LoadsComponent(c))
          /\ c.incubator = r.incubator /\ c.item = r.item /\ c.loads = r.loads
          /\ c.component = r.component /\ c.source = r.source /\ c.cleanup = r.cleanup
      BY <1>2, <2>1 DEF Consistent, Complete, Loaders
    <3> HIDE DEF c
    <3>2. /\ r.item = None /\ Owned(r)
          /\ r.incubator = "loading" => r.loads # None /\ (patient => r.loads = r.component)
      BY <2>2, <3>1 DEF IsLoading, LoadsInBackground, Settled, Owned, LoadsComponent
    <3>3. CASE r.incubator = "loading"
      <4>1. Consistent(Complete(LoadIsOver(r, off)))
        BY <1>2, <3>2, <3>3, EndsConsistent
      <4> QED
        BY <3>3, <4>1 DEF ForceCompletion
    <3>4. CASE r.incubator = "freed"
      <4>1. Complete(Undefined(r)) = Undefined(Complete(r))
        BY <1>2 DEF Complete, Undefined, Loaders
      <4>2. /\ c \in Loaders /\ c.incubator = "freed" /\ c.item = None /\ c.left = 0
            /\ c.reloadComplete
        BY <1>2, <2>1, <3>1, <3>2, <3>4, CompleteFacts, StepsFacts
           DEF LoadsInBackground, Complete, Loaders, c
      <4> QED
        BY <3>1, <3>4, <4>1, <4>2, UndefinedConsistent DEF ForceCompletion, c
    <3> QED
      BY <1>2, <2>2, <3>3, <3>4 DEF IsLoading, Loaders
  <2> QED
    BY <2>1, <2>2 DEF r
<1> QED
  BY <1>3, <1>4

-----------------------------------------------------------------------------
(* The steps of the loader and of its controller.                          *)

\* What holds of the members of a loader holds of them in the next state.
LEMMA ConsistentNext ==
    ASSUME Consistent(loader'), UNCHANGED patient
    PROVE  Consistent(loader)'
BY DEF Consistent, LoadsInBackground, BeginsAfterReload, Settled, Owned, LoadsComponent, Wanted,
   Loaders, Items

Controllers == [follow : BOOLEAN, timer : BOOLEAN, queued : BOOLEAN]
Scenes == [window : BOOLEAN, exposed : BOOLEAN, animating : BOOLEAN]

\* A controller that has loads is called later, unless frames come.
LEMMA ScheduleFacts ==
    ASSUME NEW c \in Controllers, NEW count \in Nat, NEW interleaves \in BOOLEAN
    PROVE  LET d == Schedule(c, count, interleaves)
           IN  /\ d \in Controllers /\ d.follow = c.follow
               /\ c.timer \/ c.queued => d.timer \/ d.queued
               /\ count > 0 => d.timer \/ d.queued \/ interleaves
BY DEF Schedule, IncubateLater, Controllers

LEMMA SetIncubationModeFacts ==
    ASSUME NEW c \in Controllers, NEW count \in Nat, NEW render \in BOOLEAN
    PROVE  LET d == SetIncubationMode(c, render, count)
           IN  /\ d \in Controllers /\ d.follow = render
               /\ c.timer \/ c.queued => d.timer \/ d.queued
               /\ count > 0 /\ ~render /\ c.follow => d.timer
BY DEF SetIncubationMode, IncubateLater, Controllers

LEMMA CallKeeps ==
    ASSUME LoaderInv, NEW l, Consistent(l), Call(l)
    PROVE  LoaderInv'
<1>1. loader.left \in Nat /\ l.left \in Nat /\ Interleaves \in BOOLEAN
  BY StepsFacts DEF LoaderInv, Consistent, Loaders, Interleaves
<1>2. Consistent(loader)'
  BY ConsistentNext DEF Call
<1>3. /\ ctl' \in Controllers /\ ctl'.follow = ctl.follow
      /\ ctl.timer \/ ctl.queued => ctl'.timer \/ ctl'.queued
      /\ l.left > loader.left => ctl'.timer \/ ctl'.queued \/ Interleaves
  BY <1>1, ScheduleFacts DEF Call, LoaderInv, Controllers
<1> QED
  BY <1>1, <1>2, <1>3 DEF LoaderInv, Call, ControllerFollows, NoLostWakeup,
                          Interleaves, Controllers

\* A turn of the controller, for a load or none.
LEMMA IncubateKeeps ==
    ASSUME LoaderInv, NEW c \in Controllers, c.follow = ctl.follow, NEW interleaves \in BOOLEAN,
           Incubate(c, interleaves)
    PROVE  /\ Consistent(loader)' /\ ctl' \in Controllers /\ ctl'.follow = ctl.follow
           /\ loader'.left > 0 => ctl'.timer \/ ctl'.queued \/ interleaves
           /\ c.timer \/ c.queued => ctl'.timer \/ ctl'.queued
<1>1. Consistent(loader) /\ loader \in Loaders /\ loader.left \in Nat
  BY StepsFacts DEF LoaderInv, Consistent, Loaders
<1>2. Consistent(loader')
  <2>1. CASE loader.left = 0
    BY <1>1, <2>1 DEF Incubate
  <2>2. CASE loader.left = 1
    <3>1. PICK off \in Offs : loader' = LoadIsOver(loader, off)
      BY <2>2 DEF Incubate
    <3>2. /\ loader.item = None /\ loader.loads # None /\ Owned(loader) /\ loader.reloadComplete
          /\ patient => loader.loads = loader.component
      BY <1>1, <2>2 DEF Consistent, LoadsInBackground, Settled, BeginsAfterReload,
                        LoadsComponent
    <3>3. Consistent(Complete(loader')) /\ loader'.reloadComplete
      BY <1>1, <3>1, <3>2, EndsConsistent
    <3>4. loader' \in Loaders
      BY <1>1, <3>1, EndsType DEF Offs
    <3> QED
      BY <3>3, <3>4, CompleteFacts
  <2>3. CASE loader.left > 1
    <3>1. loader' = [loader EXCEPT !.left = @ - 1]
      BY <2>3 DEF Incubate
    <3>2. loader.left - 1 \in 0..Steps /\ loader.left - 1 > 0
      BY <1>1, <2>3, StepsFacts DEF Loaders
    <3>3. loader' \in Loaders
      BY <1>1, <3>1, <3>2 DEF Loaders
    <3> QED
      BY <1>1, <2>3, <3>1, <3>2, <3>3 DEF Consistent, LoadsInBackground, BeginsAfterReload,
                                          Settled,
         Owned, LoadsComponent, Wanted, Loaders
  <2> QED
    BY <1>1, <2>1, <2>2, <2>3
<1>3. loader'.left \in Nat
  BY <1>2, StepsFacts DEF Consistent, Loaders
<1>4. ctl' = Schedule(c, loader'.left, interleaves) /\ UNCHANGED patient
  BY DEF Incubate
<1> QED
  BY <1>2, <1>3, <1>4, ScheduleFacts, ConsistentNext

LEMMA CallsKeep ==
    ASSUME LoaderInv
    PROVE  /\ QmlSetsActive \/ QmlSetsInactive => LoaderInv'
           /\ QmlSetsActiveAsync \/ QmlSetsLoading => LoaderInv'
           /\ QmlReadsItem \/ QmlSetsComponent => LoaderInv'
           /\ QmlSetsSource \/ ComponentDestroyed => LoaderInv'
           /\ OnReload => LoaderInv'
<1>1. /\ Consistent(loader)
      /\ \A off \in Offs : off \in BOOLEAN
      /\ FALSE \in Offs
  BY DEF LoaderInv, Offs
<1>2. ASSUME QmlSetsActive PROVE LoaderInv'
  BY <1>1, <1>2, SetActiveConsistent, CallKeeps DEF QmlSetsActive
<1>3. ASSUME QmlSetsInactive PROVE LoaderInv'
  <2>1. SetActiveAsync(loader, FALSE, FALSE) \in {loader, SetInactive(loader)}
    BY DEF SetActiveAsync
  <2> QED
    BY <1>1, <1>3, <2>1, SetInactiveConsistent, CallKeeps DEF QmlSetsInactive
<1>4. ASSUME QmlSetsActiveAsync PROVE LoaderInv'
  <2>1. PICK off \in Offs : Call(SetActiveAsync(loader, TRUE, off))
    BY <1>4 DEF QmlSetsActiveAsync
  <2>2. SetActiveAsync(loader, TRUE, off)
        \in {loader, SetLoading(loader, TRUE, off)}
    BY DEF SetActiveAsync
  <2> QED
    BY <1>1, <2>1, <2>2, SetLoadingConsistent, CallKeeps
<1>5. ASSUME QmlSetsLoading PROVE LoaderInv'
  BY <1>1, <1>5, SetLoadingConsistent, CallKeeps DEF QmlSetsLoading
<1>6. ASSUME QmlReadsItem PROVE LoaderInv'
  BY <1>1, <1>6, SetActiveConsistent, CallKeeps DEF QmlReadsItem
<1>7. ASSUME MaySetComponent PROVE MaySet(loader)
  BY <1>7 DEF MaySetComponent, MaySet
<1>8. ASSUME QmlSetsComponent PROVE LoaderInv'
  <2>1. None \in Sources \cup {None}
    OBVIOUS
  <2> QED
    BY <1>1, <1>7, <1>8, <2>1, SetSourceConsistent, CallKeeps DEF QmlSetsComponent
<1>9. ASSUME QmlSetsSource PROVE LoaderInv'
  <2>1. None \in Components \cup {None}
    OBVIOUS
  <2> QED
    BY <1>1, <1>7, <1>9, <2>1, SetSourceConsistent, CallKeeps DEF QmlSetsSource
<1>10. ASSUME ComponentDestroyed PROVE LoaderInv'
  <2> DEFINE r == [loader EXCEPT !.component = None]
  <2>1. r \in Loaders
    BY <1>1 DEF Consistent, Loaders, Items
  <2>2. Consistent(r)
    BY <1>1, <1>10, <2>1 DEF ComponentDestroyed, Consistent, LoadsInBackground,
                             BeginsAfterReload,
       Settled, Owned, LoadsComponent, Wanted, Loaders
  <2> QED
    BY <1>10, <2>2, CallKeeps DEF ComponentDestroyed
<1>11. ASSUME OnReload PROVE LoaderInv'
  <2>1. PICK off \in Offs, old \in BOOLEAN :
            LET r == IncubateIfReady(loader, TRUE, off)
            IN  Call(Complete(IF old /\ IsLoading(r)
                                     THEN ForceCompletion(r, off) ELSE r))
    BY <1>11 DEF OnReload, Complete
  <2>2. ~loader.reloadComplete
    BY <1>11 DEF OnReload
  <2> QED
    BY <1>1, <2>1, <2>2, ReloadConsistent, CallKeeps
<1> QED
  BY <1>2, <1>3, <1>4, <1>5, <1>6, <1>8, <1>9, <1>10, <1>11

LEMMA ControllerKeeps ==
    ASSUME LoaderInv
    PROVE  /\ TimerEvent \/ QueuedIncubate => LoaderInv'
           /\ Frame \/ AnimationStops => LoaderInv'
           /\ AnimationStarts \/ WindowExposed => LoaderInv'
           /\ WindowComes \/ WindowGoes => LoaderInv'
<1>1. /\ ctl \in Controllers /\ scene \in Scenes
      /\ Interleaves \in BOOLEAN /\ patient \in BOOLEAN
  BY DEF LoaderInv, Controllers, Scenes, Interleaves
<1>2. ASSUME TimerEvent PROVE LoaderInv'
  <2> DEFINE c == [ctl EXCEPT !.timer = FALSE]
  <2>1. /\ c \in Controllers /\ c.follow = ctl.follow
        /\ Incubate(c, Interleaves) /\ UNCHANGED scene
    BY <1>1, <1>2 DEF TimerEvent, Controllers
  <2> QED
    BY <1>1, <2>1, IncubateKeeps
       DEF Incubate, LoaderInv, ControllerFollows, NoLostWakeup,
           Interleaves, Controllers
<1>3. ASSUME QueuedIncubate PROVE LoaderInv'
  <2> DEFINE c == [ctl EXCEPT !.queued = FALSE]
  <2>1. /\ c \in Controllers /\ c.follow = ctl.follow
        /\ Incubate(c, Interleaves) /\ UNCHANGED scene
    BY <1>1, <1>3 DEF QueuedIncubate, Controllers
  <2> QED
    BY <1>1, <2>1, IncubateKeeps
       DEF Incubate, LoaderInv, ControllerFollows, NoLostWakeup,
           Interleaves, Controllers
<1>4. ASSUME Frame PROVE LoaderInv'
  BY <1>1, <1>4, IncubateKeeps
     DEF Frame, Incubate, LoaderInv, ControllerFollows, NoLostWakeup,
         Interleaves, Controllers
<1>5. ASSUME AnimationStops PROVE LoaderInv'
  BY <1>1, <1>5, IncubateKeeps DEF AnimationStops, Incubate, LoaderInv,
                                   ControllerFollows, NoLostWakeup,
     Interleaves, Controllers, Scenes
<1>6. ASSUME AnimationStarts \/ WindowExposed PROVE LoaderInv'
  <2>1. Consistent(loader)' /\ UNCHANGED <<loader, ctl, patient>>
    BY <1>6, ConsistentNext DEF AnimationStarts, WindowExposed, LoaderInv
  <2> QED
    BY <1>1, <1>6, <2>1 DEF AnimationStarts, WindowExposed, LoaderInv,
                            ControllerFollows, NoLostWakeup,
       Interleaves, Controllers, Scenes
<1>7. ASSUME WindowComes \/ WindowGoes PROVE LoaderInv'
  <2>1. UNCHANGED <<loader, patient>> /\ Consistent(loader)' /\ loader.left \in Nat
    <3>1. UNCHANGED <<loader, patient>>
      BY <1>7 DEF WindowComes, WindowGoes
    <3>2. Consistent(loader)'
      BY <3>1, ConsistentNext DEF LoaderInv
    <3>3. loader.left \in Nat
      BY StepsFacts DEF LoaderInv, Consistent, Loaders
    <3> QED
      BY <3>1, <3>2, <3>3
  <2>2. /\ ctl' \in Controllers /\ (ctl.timer \/ ctl.queued => ctl'.timer \/ ctl'.queued)
        /\ WindowComes => ctl'.follow
        /\ WindowGoes => ~ctl'.follow /\ (loader.left > 0 /\ ctl.follow => ctl'.timer)
    <3>1. CASE WindowComes
      BY <1>1, <2>1, <3>1, SetIncubationModeFacts DEF WindowComes, WindowGoes
    <3>2. CASE WindowGoes
      BY <1>1, <2>1, <3>2, SetIncubationModeFacts DEF WindowComes, WindowGoes
    <3> QED
      BY <1>7, <3>1, <3>2
  <2> QED
    BY <1>1, <1>7, <2>1, <2>2 DEF WindowComes, WindowGoes, LoaderInv,
                                  ControllerFollows, NoLostWakeup,
       Interleaves, Controllers, Scenes
<1> QED
  BY <1>2, <1>3, <1>4, <1>5, <1>6, <1>7

-----------------------------------------------------------------------------
(* The theorems about lazy loading.                                        *)

LEMMA LoaderInitInv ==
    LoaderInit => LoaderInv
<1> SUFFICES ASSUME LoaderInit PROVE LoaderInv
  OBVIOUS
<1>1. loader \in Loaders
  BY StepsFacts DEF LoaderInit, Loaders, Items
<1> QED
  BY <1>1 DEF LoaderInit, LoaderInv, Consistent, LoadsInBackground, BeginsAfterReload,
              Settled, Owned,
     LoadsComponent, Wanted, ControllerFollows, NoLostWakeup

LEMMA LoaderNextInv ==
    LoaderInv /\ [LoaderNext]_loaderVars => LoaderInv'
<1> SUFFICES ASSUME LoaderInv, [LoaderNext]_loaderVars PROVE LoaderInv'
  OBVIOUS
<1>1. CASE LoaderNext
  BY <1>1, CallsKeep, ControllerKeeps DEF LoaderNext
<1>2. CASE UNCHANGED loaderVars
  <2>1. Consistent(loader)'
    BY <1>2, ConsistentNext DEF loaderVars, LoaderInv
  <2> QED
    BY <1>2, <2>1 DEF loaderVars, LoaderInv, ControllerFollows, NoLostWakeup,
                      Interleaves
<1> QED
  BY <1>1, <1>2

LEMMA LazyLoaderInvariant ==
    LoaderSpec => []LoaderInv
BY LoaderInitInv, LoaderNextInv, PTL DEF LoaderSpec

\* Every member of the loader and of the controller keeps its type, and there are
\* steps left exactly while there is an incubator.
THEOREM LazyLoaderTypeCorrect == LoaderSpec => []LoaderTypeOK
<1>1. LoaderInv => LoaderTypeOK
  BY DEF LoaderInv, Consistent, Loaders, Items, LoadsInBackground, LoaderTypeOK
<1> QED
  BY <1>1, LazyLoaderInvariant, PTL

\* For any components and sources, loads of any length, windows and animations
\* that come and go: a loaded item is wanted and nothing loads beside it, a loader
\* with a source owns its component, what QML wants is loaded or loading, and
\* what loads has a turn to come.
THEOREM LazyLoaderSafe ==
    LoaderSpec => [](/\ LoadedIsSettled /\ SourceIsOwned
                     /\ WantedIsLoaded /\ NoLostWakeup)
<1>1. LoaderInv => /\ LoadedIsSettled /\ SourceIsOwned
                   /\ WantedIsLoaded /\ NoLostWakeup
  BY DEF LoaderInv, Consistent, Settled, Owned, Wanted, LoadedIsSettled,
         SourceIsOwned, WantedIsLoaded,
     IsActive, IsLoading
<1> QED
  BY <1>1, LazyLoaderInvariant, PTL
=============================================================================
