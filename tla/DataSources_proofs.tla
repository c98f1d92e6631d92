--------------------------- MODULE DataSources_proofs ---------------------------
(***************************************************************************)
(* Proofs about DataSources, for any number of forecasts, files, answers,  *)
(* adapters, variables and levels.                                         *)
(*                                                                         *)
(* Two things are needed beyond the properties: that a file a load has     *)
(* written or opened still holds what it held, unless another load wrote   *)
(* to it, in which case the load is marked (Fresh, Viewed, Alone); and     *)
(* that the view of an opened dataset names the variables meant            *)
(* (Faithful), which rests on the renaming (RenamedAsMeant).  What a       *)
(* marked load may have got is a second invariant (Traced).                *)
(***************************************************************************)
EXTENDS DataSources, WellFoundedInduction, TLAPS

(* A set of naturals has a least element.                                   *)
LEMMA First ==
  ASSUME NEW T, T \subseteq Nat, T # {}
  PROVE  \E m \in T : \A j \in T : m <= j
<1>1. PICK m \in T : \A j \in T : ~ (<<j, m>> \in OpToRel(<, Nat))
  BY NatLessThanWellFounded, WFMin
<1>2. \A j \in T : ~(j < m)
  BY <1>1 DEF OpToRel
<1> QED
  BY <1>2

(* A set of places has a last one.                                          *)
LEMMA Last ==
  ASSUME NEW n \in Nat, NEW S \in SUBSET (1 .. n), S # {}
  PROVE  \E m \in S : \A j \in S : j <= m
<1> DEFINE T == {n - i : i \in S}
<1>1. T \subseteq Nat /\ T # {}
  <2>1. \A i \in S : n - i \in Nat
    OBVIOUS
  <2>2. PICK i \in S : TRUE
    OBVIOUS
  <2>3. n - i \in T
    OBVIOUS
  <2> QED
    BY <2>1, <2>3
<1>2. PICK f \in T : \A j \in T : f <= j
  BY <1>1, First
<1>3. PICK m \in S : f = n - m
  BY <1>2
<1>4. \A j \in S : n - m <= n - j
  BY <1>2, <1>3
<1> QED
  BY <1>4

(* There are channels.                                                      *)
LEMMA Positive ==
  /\ Len(LevelVars) \in Nat \ {0} /\ Len(Levels) \in Nat \ {0}
  /\ Channels \in Nat \ {0}
<1>1. Len(LevelVars) \in Nat \ {0} /\ Len(Levels) \in Nat \ {0}
  BY SourceAssumption
<1> QED
  BY <1>1 DEF Channels

(* Quotient and remainder are the ones that fit.                            *)
LEMMA Division ==
  ASSUME NEW n \in Nat \ {0}, NEW q \in Nat, NEW r \in 0 .. n - 1
  PROVE  (q * n + r) \div n = q /\ (q * n + r) % n = r
<1> DEFINE x == q * n + r
           d == x \div n
           rest == x % n
           gap == d - q
           p == gap * n
<1>1. x \in Nat
  <2>1. q * n \in Nat
    BY SMTT(30)
  <2> QED
    BY <2>1
<1>2. d \in Int /\ rest \in 0 .. n - 1
  <2> HIDE DEF x
  <2> QED
    BY <1>1
<1>3. x = n * d + rest
  <2> HIDE DEF x
  <2> QED
    BY <1>1
<1>4. gap \in Int
  BY <1>2
<1>5. p = r - rest
  <2>1. p = d * n - q * n
    <3> HIDE DEF d
    <3> QED
      BY <1>2, SMTT(30)
  <2>2. q * n \in Int /\ d * n \in Int /\ n * d = d * n
    <3> HIDE DEF d
    <3> QED
      BY <1>2, SMTT(30)
  <2>3. q * n + r = d * n + rest
    BY <1>3, <2>2
  <2> HIDE DEF p, d, rest
  <2> QED
    BY <1>2, <2>1, <2>2, <2>3
<1> HIDE DEF rest, gap
<1>6. (gap >= 1 => p >= n) /\ (gap <= -1 => p <= -n)
  BY <1>4, SMTT(30)
<1> HIDE DEF p
<1>7. gap = 0
  BY <1>2, <1>4, <1>5, <1>6
<1>8. d = q
  BY <1>2, <1>7 DEF gap
<1>9. rest = r
  BY <1>2, <1>5, <1>7 DEF p
<1> QED
  BY <1>8, <1>9 DEF d, x, rest

(* Where the channel of a level and a variable stands.                      *)
LEMMA IndexOf ==
  ASSUME NEW i \in DOMAIN Levels, NEW j \in DOMAIN LevelVars
  PROVE  LET k == (i - 1) * Len(LevelVars) + j IN
         k \in 1 .. Channels /\ LevelAt(k) = Levels[i] /\ VarAt(k) = LevelVars[j]
<1> DEFINE n == Len(LevelVars)
           k == (i - 1) * n + j
<1>1. /\ n \in Nat \ {0} /\ i \in 1 .. Len(Levels) /\ j \in 1 .. n
      /\ Len(Levels) \in Nat
  BY Positive, SourceAssumption
<1> HIDE DEF n
<1>2. (i - 1) * n \in Nat /\ (i - 1) * n + n = i * n /\ i * n <= Len(Levels) * n
  BY <1>1, SMTT(30)
<1>3. k \in 1 .. Channels
  BY <1>1, <1>2 DEF Channels, n
<1>4. (k - 1) \div n = i - 1 /\ (k - 1) % n = j - 1
  <2>1. k - 1 = (i - 1) * n + (j - 1) /\ i - 1 \in Nat /\ j - 1 \in 0 .. n - 1
    <3>1. (i - 1) * n \in Int /\ j \in Int
      BY <1>1, <1>2
    <3>2. (i - 1) * n + j - 1 = (i - 1) * n + (j - 1)
      BY <3>1
    <3> QED
      BY <1>1, <3>2
  <2> QED
    BY <1>1, <2>1, Division
<1>5. 1 + (i - 1) = i /\ 1 + (j - 1) = j
  BY <1>1
<1> QED
  BY <1>3, <1>4, <1>5 DEF LevelAt, VarAt, n

-----------------------------------------------------------------------------
(* Renaming.                                                                *)

(* Of the entries with one source the last gives the name.                  *)
LEMMA NameGiven ==
  ASSUME NEW map \in Seq(Seq(STRING)), NEW x
  PROVE  \/ /\ \A i \in DOMAIN map : map[i][2] # x
            /\ NewName(map, x) = x
         \/ \E i \in DOMAIN map :
              /\ map[i][2] = x /\ NewName(map, x) = map[i][1]
              /\ \A j \in DOMAIN map : map[j][2] = x => j <= i
<1> DEFINE entries == {i \in DOMAIN map : map[i][2] = x}
<1>1. CASE entries = {}
  BY <1>1 DEF NewName
<1>2. CASE entries # {}
  <2> DEFINE last == CHOOSE i \in entries : \A j \in entries : j <= i
  <2>1. \E m \in entries : \A j \in entries : j <= m
    <3>1. Len(map) \in Nat /\ entries \in SUBSET (1 .. Len(map))
      OBVIOUS
    <3> HIDE DEF entries
    <3> QED
      BY <1>2, <3>1, Last
  <2>2. last \in entries /\ \A j \in entries : j <= last
    BY <2>1
  <2>3. NewName(map, x) = map[last][1]
    BY <1>2 DEF NewName
  <2> HIDE DEF last
  <2> QED
    BY <2>2, <2>3
<1> QED
  BY <1>1, <1>2

(* A variable of a renamed dataset is the one the caller's map means.       *)
LEMMA RenamedAsMeant ==
  ASSUME NEW a \in Adapters, FileBacked(a), NEW b, MayRename(b, a.map),
         NEW v \in DOMAIN Renamed(b, a.map)
  PROVE  /\ Renamed(b, a.map)[v] \in DOMAIN Fields[b]
         /\ Renamed(b, a.map)[v] = Meant(a, b, v)
<1> DEFINE map == a.map
           x == Renamed(b, map)[v]
           entries == {j \in DOMAIN map :
                  /\ map[j][1] = v
                  /\ map[j][2] \in DOMAIN Fields[b]
                  /\ \A later \in DOMAIN map : map[later][2] = map[j][2] => later <= j}
           given == {map[i][2] : i \in entries}
<1>1. /\ map \in Seq(Seq(STRING))
      /\ \A i, j \in DOMAIN map : map[i][1] = map[j][1] => i = j
  BY SourceAssumption
<1>2. \E y \in DOMAIN Fields[b] : NewName(map, y) = v
  BY DEF Renamed
<1>3. x \in DOMAIN Fields[b] /\ NewName(map, x) = v
  <2>1. v \in {NewName(map, y) : y \in DOMAIN Fields[b]}
    BY <1>2
  <2>2. x = CHOOSE y \in DOMAIN Fields[b] : NewName(map, y) = v
    BY <2>1 DEF Renamed
  <2> QED
    BY <1>2, <2>2
<1>4. \A y \in DOMAIN Fields[b] : NewName(map, y) = v => y = x
  BY <1>3 DEF MayRename
<1>5. Meant(a, b, v) = IF given = {} THEN v ELSE CHOOSE y \in given : TRUE
  BY DEF Meant
<1> HIDE DEF x, map
<1>6. CASE \A i \in DOMAIN map : map[i][2] # x
  <2>1. NewName(map, x) = x
    BY <1>1, <1>6, NameGiven
  <2>2. x = v
    BY <1>3, <2>1
  <2>3. ASSUME NEW j \in entries PROVE FALSE
    <3>1. map[j][2] \in DOMAIN Fields[b] /\ map[j][1] = v
      OBVIOUS
    <3>2. NewName(map, map[j][2]) = v
      <4> DEFINE y == map[j][2]
      <4>1. PICK i \in DOMAIN map :
              /\ map[i][2] = y /\ NewName(map, y) = map[i][1]
              /\ \A l \in DOMAIN map : map[l][2] = y => l <= i
        <5>1. map \in Seq(Seq(STRING)) /\ j \in DOMAIN map /\ map[j][2] = y
          BY <1>1
        <5> HIDE DEF y
        <5> QED
          BY <5>1, NameGiven, Zenon
      <4>2. i <= j /\ j <= i /\ i \in Int /\ j \in Int
        BY <1>1, <4>1
      <4> QED
        BY <3>1, <4>1, <4>2
    <3> QED
      BY <1>4, <1>6, <3>1, <3>2
  <2>4. given = {}
    BY <2>3
  <2> QED
    BY <1>3, <1>5, <2>2, <2>4 DEF x, map
<1>7. ASSUME NEW i \in DOMAIN map, map[i][2] = x PROVE Renamed(b, map)[v] = Meant(a, b, v)
  <2>1. PICK m \in DOMAIN map :
          /\ map[m][2] = x /\ NewName(map, x) = map[m][1]
          /\ \A l \in DOMAIN map : map[l][2] = x => l <= m
    <3>1. map \in Seq(Seq(STRING))
      BY <1>1
    <3> QED
      BY <1>7, <3>1, NameGiven, Zenon
  <2>2. m \in entries
    BY <1>3, <2>1
  <2>3. \A j \in entries : j = m
    BY <1>1, <1>3, <2>1
  <2>4. given = {x}
    BY <2>1, <2>2, <2>3
  <2> QED
    BY <1>5, <2>4 DEF x
<1> QED
  BY <1>3, <1>6, <1>7 DEF x, map

-----------------------------------------------------------------------------
(* The invariant, of one load x while the files hold fl.                    *)

Stages == {"new", "import", "load", "retrieve", "open", "prepare", "done", "failed"}

TaskShape(x) ==
  /\ x = [stage |-> x.stage, adapter |-> x.adapter, through |-> x.through, view |-> x.view,
          channels |-> x.channels, disturbed |-> x.disturbed]
  /\ x.stage \in Stages /\ x.disturbed \in BOOLEAN
  /\ x.adapter \in Adapters \cup {None}
  /\ (x.stage = "new") = (x.adapter = None)
  /\ x.channels \in Seq(Value \cup {NaN})
  /\ x.stage \in {"new", "import", "load", "retrieve", "open"} =>
       x.channels = << >> /\ x.view = NoView
  /\ x.stage = "prepare" => Len(x.channels) < Channels
  /\ x.stage = "done" => Len(x.channels) = Channels

(* A file written by a load holds its answer until another load writes it.  *)
Fresh(x, fl) ==
  /\ x.disturbed => FileBacked(x.adapter)
  /\ x.stage \in {"retrieve", "open"} => x.adapter.kind = "retrieve"
  /\ (x.stage = "open" /\ ~x.disturbed) => fl[x.adapter.path] = x.adapter.answer

(* What the dataset of a load says: its variables are those meant.          *)
Faithful(a, view) ==
  /\ view.opened \in Answers
  /\ view.pascal = InPascal(a)
  /\ \A v \in DOMAIN view.columns :
       /\ view.columns[v] \in DOMAIN Fields[view.opened]
       /\ view.columns[v] = Meant(a, view.opened, v)
       /\ (v \in view.scaled) = (InMeters(a) /\ v = "z")

(* Undisturbed, they are of the answer the load asked for, and its file     *)
(* holds what was opened as long as values are read from it.                *)
Viewed(x, fl) ==
  x.stage \in {"prepare", "done"} =>
    \/ x.view = NoView
    \/ /\ Faithful(x.adapter, x.view)
       /\ (x.adapter.kind # "file" /\ ~x.disturbed) => x.view.opened = x.adapter.answer
       /\ (x.stage = "prepare" /\ ~x.disturbed /\ FileBacked(x.adapter)) =>
            fl[x.adapter.path] = x.view.opened

(* The channel with number k, once it is read.                              *)
Channel(x, k) ==
  LET c == x.channels[k]
      v == VarAt(k)
      at == Coordinate(x.view, LevelAt(k))
  IN  /\ v \in DOMAIN x.view.columns
      /\ IF c # NaN
         THEN /\ c.variable = x.view.columns[v] /\ c.at = at
              /\ c.scaled = (v \in x.view.scaled)
              /\ x.disturbed \/ c.answer = x.view.opened
         ELSE \/ x.disturbed
              \/ /\ at \notin Fields[x.view.opened][x.view.columns[v]]
                 /\ HasLevel(x.view, LevelAt(k))

Good(x, fl) ==
  /\ TaskShape(x) /\ Fresh(x, fl) /\ Viewed(x, fl)
  /\ x.stage \in {"prepare", "done"} => \A k \in 1 .. Len(x.channels) : Channel(x, k)

(* A load that reads or writes a file another load is writing is marked.    *)
Busy(x) ==
  /\ x.stage \in {"retrieve", "open"} \/ (x.stage = "prepare" /\ x.view # NoView)
  /\ FileBacked(x.adapter)

Alone == \A t \in Tasks : Busy(task[t]) /\ ~task[t].disturbed => Writing(t, Adapter(t).path) = {}

IInv ==
  /\ file \in [Files -> Answers \cup {Missing, Torn}]
  /\ DOMAIN task = Tasks /\ task = [t \in Tasks |-> task[t]]
  /\ \A t \in Tasks : Good(task[t], file)
  /\ Alone

-----------------------------------------------------------------------------
(* How loads step.                                                          *)

(* A load that changes only itself, and does not begin to write.            *)
LEMMA BecomeOK ==
  ASSUME IInv, NEW t \in Tasks, NEW x, Good(x, file), Become(t, x), UNCHANGED file,
         x.stage \notin {"retrieve", "open"},
         Busy(x) /\ ~x.disturbed => Writing(t, x.adapter.path) = {}
  PROVE  IInv'
<1>1. task' = [o \in Tasks |-> IF o = t THEN x ELSE task[o]]
  BY DEF IInv, Become
<1>2. \A o \in Tasks : Good(task'[o], file)
  BY <1>1 DEF IInv
<1>5. Alone'
  <2> SUFFICES ASSUME NEW o \in Tasks, Busy(task'[o]), ~task'[o].disturbed,
                      NEW w \in Writing(o, Adapter(o).path)'
               PROVE  FALSE
    BY DEF Alone, Busy
  <2>1. w # o /\ w \in Tasks /\ task'[w].stage = "retrieve"
        /\ task'[w].adapter.path = task'[o].adapter.path
    BY DEF Writing, At, Adapter
  <2>2. w # t /\ task'[w] = task[w]
    BY <1>1, <2>1
  <2>3. w \in Writing(o, task'[o].adapter.path)
    BY <2>1, <2>2 DEF Writing, At, Adapter
  <2>4. CASE o = t
    <3>1. task'[o] = x
      BY <1>1, <2>4
    <3> QED
      BY <2>3, <2>4, <3>1
  <2>5. CASE o # t
    <3>1. task'[o] = task[o]
      BY <1>1, <2>5
    <3> QED
      BY <2>3, <3>1 DEF IInv, Alone, Adapter
  <2> QED
    BY <2>4, <2>5
<1> HIDE DEF IInv
<1>3. file \in [Files -> Answers \cup {Missing, Torn}]
  BY DEF IInv
<1>4. DOMAIN task' = Tasks /\ task' = [o \in Tasks |-> task'[o]]
  BY <1>1
<1> QED
  BY <1>2, <1>3, <1>4, <1>5 DEF IInv

(* A load in another stage is otherwise the same.                           *)
LEMMA Staged ==
  ASSUME NEW x, TaskShape(x), NEW stage
  PROVE  [x EXCEPT !.stage = stage]
           = [stage |-> stage, adapter |-> x.adapter, through |-> x.through, view |-> x.view,
              channels |-> x.channels, disturbed |-> x.disturbed]
  BY DEF TaskShape

(* One that writes may be marked as well.                                   *)
LEMMA Marked ==
  ASSUME NEW x, TaskShape(x), NEW stage, NEW d
  PROVE  [x EXCEPT !.stage = stage, !.disturbed = d]
           = [stage |-> stage, adapter |-> x.adapter, through |-> x.through, view |-> x.view,
              channels |-> x.channels, disturbed |-> d]
<1> DEFINE first == [x EXCEPT !.stage = stage]
<1>1. [x EXCEPT !.stage = stage, !.disturbed = d] = [first EXCEPT !.disturbed = d]
  BY Zenon
<1>2. first = [stage |-> stage, adapter |-> x.adapter, through |-> x.through,
               view |-> x.view, channels |-> x.channels, disturbed |-> x.disturbed]
  BY Staged
<1> HIDE DEF first
<1>3. [first EXCEPT !.disturbed = d]
        = [stage |-> stage, adapter |-> x.adapter, through |-> x.through, view |-> x.view,
           channels |-> x.channels, disturbed |-> d]
  BY <1>2
<1> QED
  BY <1>1, <1>3, Zenon

(* A load that raises.                                                      *)
LEMMA FailOK ==
  ASSUME IInv, NEW t \in Tasks, task[t].stage # "new", Fail(t)
  PROVE  IInv'
<1> DEFINE x == task[t]
           y == [x EXCEPT !.stage = "failed"]
<1>1. Good(x, file) /\ Become(t, y) /\ UNCHANGED file
  BY DEF IInv, Fail
<1>2. /\ y = [stage |-> "failed", adapter |-> x.adapter, through |-> x.through,
              view |-> x.view, channels |-> x.channels, disturbed |-> x.disturbed]
  BY <1>1, Staged DEF Good
<1> HIDE DEF y, x
<1>3. Good(y, file)
  BY <1>1, <1>2 DEF Good, TaskShape, Stages, Fresh, Viewed, x
<1>4. y.stage = "failed" /\ ~Busy(y)
  BY <1>2 DEF Busy
<1> QED
  BY <1>1, <1>3, <1>4, BecomeOK

(* A write to f that leaves the writer good leaves all loads good.          *)
LEMMA StoreOK ==
  ASSUME IInv, NEW t \in Tasks, NEW f \in Files, NEW h \in Answers \cup {Missing, Torn},
         NEW stage, Store(t, f, h, stage), Adapter(t).path = f, FileBacked(Adapter(t)),
         Good([task[t] EXCEPT !.stage = stage, !.disturbed = Disturbed(t)],
              [file EXCEPT ![f] = h])
  PROVE  IInv'
<1>1. file' = [file EXCEPT ![f] = h]
  BY DEF Store
<1>2. task' = [o \in Tasks |->
       IF o = t THEN [task[t] EXCEPT !.stage = stage, !.disturbed = Disturbed(t)]
       ELSE [task[o] EXCEPT !.disturbed = (@ \/ Using(o, f))]]
  BY DEF Store
<1>3. file' \in [Files -> Answers \cup {Missing, Torn}]
  BY <1>1 DEF IInv
<1>4. ASSUME NEW o \in Tasks PROVE Good(task'[o], file')
  <2>1. CASE o = t
    BY <1>1, <1>2, <2>1
  <2>2. CASE o # t
    <3> DEFINE x == task[o]
               d == x.disturbed \/ Using(o, f)
               y == task'[o]
    <3>1. Good(x, file)
      BY DEF IInv
    <3>2. y = [x EXCEPT !.disturbed = d]
      BY <1>2, <2>2
    <3>3. y = [stage |-> x.stage, adapter |-> x.adapter, through |-> x.through,
               view |-> x.view, channels |-> x.channels, disturbed |-> d]
      BY <3>1, <3>2 DEF Good, TaskShape
    <3>4. d \in BOOLEAN /\ (x.disturbed => d) /\ (d => FileBacked(x.adapter))
      BY <3>1 DEF Good, TaskShape, Fresh, Using, Adapter
    <3>5. (~d /\ x.stage \in {"open", "prepare"} /\ FileBacked(x.adapter)) =>
            file'[x.adapter.path] = file[x.adapter.path]
      BY <1>1, <3>1 DEF Using, Adapter, IInv
    <3> HIDE DEF x, y, d
    <3>6. TaskShape(y)
      BY <3>1, <3>3, <3>4 DEF Good, TaskShape
    <3>7. Fresh(y, file')
      BY <3>1, <3>3, <3>4, <3>5 DEF Good, Fresh, FileBacked
    <3>8. Viewed(y, file')
      BY <3>1, <3>3, <3>4, <3>5 DEF Good, Viewed
    <3>9. y.stage \in {"prepare", "done"} => \A k \in 1 .. Len(y.channels) : Channel(y, k)
      BY <3>1, <3>3, <3>4 DEF Good, Channel
    <3> QED
      BY <3>6, <3>7, <3>8, <3>9 DEF Good, y
  <2> QED
    BY <2>1, <2>2
<1>5. DOMAIN task' = Tasks /\ task' = [o \in Tasks |-> task'[o]]
  BY <1>2
<1>6. ASSUME NEW o \in Tasks, o # t
      PROVE  /\ task'[o].stage = task[o].stage /\ task'[o].adapter = task[o].adapter
             /\ task'[o].view = task[o].view
             /\ task'[o].disturbed = (task[o].disturbed \/ Using(o, f))
  <2>1. task'[o] = [task[o] EXCEPT !.disturbed = (task[o].disturbed \/ Using(o, f))]
    BY <1>2, <1>6
  <2>2. TaskShape(task[o])
    BY DEF IInv, Good
  <2> QED
    BY <2>1, <2>2 DEF TaskShape
<1>7. task'[t].adapter = task[t].adapter /\ task'[t].disturbed = Disturbed(t)
  <2>1. task'[t] = [task[t] EXCEPT !.stage = stage, !.disturbed = Disturbed(t)]
    BY <1>2
  <2>2. TaskShape(task[t])
    BY DEF IInv, Good
  <2>3. task'[t] = [stage |-> stage, adapter |-> task[t].adapter, through |-> task[t].through,
                    view |-> task[t].view, channels |-> task[t].channels,
                    disturbed |-> Disturbed(t)]
    BY <2>1, <2>2, Marked, Zenon
  <2> QED
    BY <2>3
<1>8. Alone'
  <2> SUFFICES ASSUME NEW o \in Tasks, Busy(task'[o]), ~task'[o].disturbed,
                      NEW w \in Writing(o, Adapter(o).path)'
               PROVE  FALSE
    BY DEF Alone, Busy
  <2>1. w # o /\ w \in Tasks /\ task'[w].stage = "retrieve"
        /\ task'[w].adapter.path = task'[o].adapter.path
    BY DEF Writing, At, Adapter
  <2>2. CASE o = t
    <3>1. w \in Writing(t, f)
      BY <1>6, <1>7, <2>1, <2>2 DEF Writing, At, Adapter
    <3> QED
      BY <1>7, <2>2, <3>1 DEF Disturbed
  <2>3. CASE o # t
    <3>1. Busy(task[o]) /\ ~task[o].disturbed /\ ~Using(o, f)
      BY <1>6, <2>3 DEF Busy
    <3>2. task[o].adapter.path # f
      BY <3>1 DEF Busy, Using, Adapter
    <3>3. w # t /\ w \in Writing(o, Adapter(o).path)
      BY <1>6, <1>7, <2>1, <2>3, <3>2 DEF Writing, At, Adapter
    <3> QED
      BY <3>1, <3>3 DEF IInv, Alone
  <2> QED
    BY <2>2, <2>3
<1> QED
  BY <1>3, <1>4, <1>5, <1>8 DEF IInv

(* A forecast begins with nothing read.                                     *)
LEMMA StartOK ==
  ASSUME IInv, NEW t \in Tasks, NEW a \in Adapters, NEW through \in BOOLEAN,
         Start(t, a, through)
  PROVE  IInv'
<1> DEFINE x == [NoTask EXCEPT !.stage = "import", !.adapter = a, !.through = through]
<1>1. NoTask = [stage |-> NoTask.stage, adapter |-> NoTask.adapter,
                through |-> NoTask.through, view |-> NoTask.view,
                channels |-> NoTask.channels, disturbed |-> NoTask.disturbed]
  BY DEF NoTask
<1>2. NoTask.view = NoView /\ NoTask.channels = << >> /\ NoTask.disturbed = FALSE
  BY DEF NoTask
<1>3. x = [stage |-> "import", adapter |-> a, through |-> through, view |-> NoTask.view,
           channels |-> NoTask.channels, disturbed |-> NoTask.disturbed]
  <2> DEFINE first == [NoTask EXCEPT !.stage = "import"]
             second == [first EXCEPT !.adapter = a]
  <2>1. x = [second EXCEPT !.through = through]
    BY Zenon
  <2>2. first = [stage |-> "import", adapter |-> NoTask.adapter,
                 through |-> NoTask.through, view |-> NoTask.view,
                 channels |-> NoTask.channels, disturbed |-> NoTask.disturbed]
    BY <1>1
  <2> HIDE DEF first
  <2>3. second = [stage |-> "import", adapter |-> a,
                  through |-> NoTask.through, view |-> NoTask.view,
                  channels |-> NoTask.channels, disturbed |-> NoTask.disturbed]
    BY <2>2
  <2> HIDE DEF second, x
  <2>4. [second EXCEPT !.through = through]
          = [stage |-> "import", adapter |-> a, through |-> through, view |-> NoTask.view,
             channels |-> NoTask.channels, disturbed |-> NoTask.disturbed]
    BY <2>3
  <2> QED
    BY <2>1, <2>4, Zenon
<1>4. Become(t, x) /\ UNCHANGED file
  BY DEF Start
<1> HIDE DEF x
<1>5. x.stage = "import" /\ x.adapter = a /\ x.channels = << >> /\ x.view = NoView
      /\ x.disturbed = FALSE
  BY <1>2, <1>3
<1>6. x = [stage |-> x.stage, adapter |-> x.adapter, through |-> x.through, view |-> x.view,
           channels |-> x.channels, disturbed |-> x.disturbed]
  BY <1>3
<1>7. a # None
  BY SourceAssumption
<1>8. TaskShape(x)
  <2>1. x.disturbed \in BOOLEAN /\ x.stage \in Stages /\ x.adapter \in Adapters \cup {None}
    BY <1>5 DEF Stages
  <2>2. (x.stage = "new") = (x.adapter = None)
    BY <1>5, <1>7
  <2>3. x.channels \in Seq(Value \cup {NaN})
    BY <1>5
  <2> QED
    BY <1>5, <1>6, <2>1, <2>2, <2>3 DEF TaskShape
<1>9. Good(x, file)
  BY <1>5, <1>8 DEF Good, Fresh, Viewed
<1> QED
  BY <1>4, <1>5, <1>9, BecomeOK DEF Busy

(* With a package missing there is no view to read from.                    *)
LEMMA ImportOK ==
  ASSUME IInv, NEW t \in Tasks, Import(t)
  PROVE  IInv'
<1> DEFINE x == task[t]
<1>1. CASE Fail(t)
  BY <1>1, FailOK DEF Import, At
<1>2. ASSUME NEW stage \in {"load", "prepare"},
             Become(t, [x EXCEPT !.stage = stage]), UNCHANGED file
      PROVE  IInv'
  <2> DEFINE y == [x EXCEPT !.stage = stage]
  <2>1. Good(x, file) /\ x.stage = "import"
    BY DEF IInv, Import, At
  <2>2. y = [stage |-> stage, adapter |-> x.adapter, through |-> x.through,
             view |-> x.view, channels |-> x.channels, disturbed |-> x.disturbed]
    BY <2>1, Staged DEF Good
  <2> HIDE DEF x, y
  <2>3. y.stage = stage /\ y.channels = << >> /\ y.view = NoView /\ y.adapter = x.adapter
        /\ y.disturbed = x.disturbed
    BY <2>1, <2>2 DEF Good, TaskShape
  <2>4. TaskShape(y)
    BY <2>1, <2>2, <2>3, Positive DEF Good, TaskShape, Stages
  <2>5. Good(y, file)
    BY <2>1, <2>3, <2>4 DEF Good, Fresh, Viewed
  <2>6. y.stage \notin {"retrieve", "open"} /\ ~Busy(y)
    BY <2>3 DEF Busy
  <2> QED
    BY <1>2, <2>5, <2>6, BecomeOK DEF y
<1> QED
  BY <1>1, <1>2 DEF Import

(* A load that obtained a view it may go on with.                           *)
LEMMA LoadOK ==
  ASSUME IInv, NEW t \in Tasks, task[t].stage \in {"load", "open"}, NEW view, Load(t, view),
         \/ view = NoView
         \/ /\ Faithful(Adapter(t), view)
            /\ (Adapter(t).kind # "file" /\ ~task[t].disturbed) =>
                 view.opened = Adapter(t).answer
            /\ (~task[t].disturbed /\ FileBacked(Adapter(t))) =>
                 file[Adapter(t).path] = view.opened
  PROVE  IInv'
<1> DEFINE x == task[t]
           d == Disturbed(t)
           y == [x EXCEPT !.stage = "prepare", !.view = view, !.disturbed = d]
           first == [x EXCEPT !.stage = "prepare"]
           second == [first EXCEPT !.view = view]
<1>1. Good(x, file) /\ Become(t, y) /\ UNCHANGED file
  BY DEF IInv, Load
<1>2. first = [stage |-> "prepare", adapter |-> x.adapter, through |-> x.through,
               view |-> x.view, channels |-> x.channels, disturbed |-> x.disturbed]
  BY <1>1, Staged DEF Good
<1>3. y = [second EXCEPT !.disturbed = d]
  BY Zenon
<1>4. second
        = [stage |-> "prepare", adapter |-> x.adapter, through |-> x.through,
           view |-> view, channels |-> x.channels, disturbed |-> x.disturbed]
  <2> HIDE DEF first
  <2> QED
    BY <1>2
<1>5. y = [stage |-> "prepare", adapter |-> x.adapter, through |-> x.through,
           view |-> view, channels |-> x.channels, disturbed |-> d]
  <2> HIDE DEF second, d
  <2>1. [second EXCEPT !.disturbed = d]
          = [stage |-> "prepare", adapter |-> x.adapter, through |-> x.through,
             view |-> view, channels |-> x.channels, disturbed |-> d]
    BY <1>4
  <2> QED
    BY <1>3, <2>1, Zenon
<1>6. x.channels = << >> /\ x.stage \in {"load", "open"}
  BY <1>1 DEF Good, TaskShape
<1>7. d \in BOOLEAN /\ (x.disturbed => d)
      /\ (d => FileBacked(x.adapter))
      /\ (FileBacked(x.adapter) /\ ~d => Writing(t, x.adapter.path) = {})
  BY <1>1 DEF Good, TaskShape, Fresh, Disturbed, Adapter
<1> HIDE DEF x, y, first, second, d
<1>8. y.stage = "prepare" /\ y.channels = << >> /\ y.view = view /\ y.adapter = x.adapter
      /\ y.disturbed = d
  BY <1>5, <1>6
<1>9. TaskShape(y)
  BY <1>1, <1>5, <1>6, <1>7, <1>8, Positive DEF Good, TaskShape, Stages
<1>10. Good(y, file)
  BY <1>7, <1>8, <1>9 DEF Good, Fresh, Viewed, Adapter, x
<1>11. y.stage \notin {"retrieve", "open"}
       /\ (Busy(y) /\ ~y.disturbed => Writing(t, y.adapter.path) = {})
  BY <1>7, <1>8 DEF Busy
<1> QED
  BY <1>1, <1>10, <1>11, BecomeOK

(* The target is torn while the service answers.                            *)
LEMMA RetrieveOK ==
  ASSUME IInv, NEW t \in Tasks, Retrieve(t)
  PROVE  IInv'
<1> DEFINE x == task[t]
           d == Disturbed(t)
           y == [x EXCEPT !.stage = "retrieve", !.disturbed = d]
           f == x.adapter.path
<1>1. x.stage = "load" /\ x.adapter.kind = "retrieve" /\ Good(x, file)
  BY DEF IInv, Retrieve, At, Adapter
<1>2. CASE Fail(t)
  BY <1>1, <1>2, FailOK
<1>3. CASE Store(t, f, Torn, "retrieve")
  <2>1. x.adapter \in Adapters /\ f \in Files
    BY <1>1, SourceAssumption DEF Good, TaskShape
  <2>2. y = [stage |-> "retrieve", adapter |-> x.adapter, through |-> x.through,
             view |-> x.view, channels |-> x.channels, disturbed |-> d]
    BY <1>1, Marked, Zenon DEF Good
  <2>3. d \in BOOLEAN /\ FileBacked(x.adapter)
    BY <1>1 DEF Good, TaskShape, Disturbed, FileBacked
  <2> HIDE DEF x, y, d
  <2>4. TaskShape(y)
    BY <1>1, <2>2, <2>3 DEF Good, TaskShape, Stages
  <2>5. Good(y, [file EXCEPT ![f] = Torn])
    BY <1>1, <2>2, <2>3, <2>4 DEF Good, Fresh, Viewed
  <2> QED
    BY <1>3, <2>1, <2>3, <2>5, StoreOK DEF x, y, d, Adapter
<1> QED
  BY <1>2, <1>3 DEF Retrieve, Adapter

(* The answer is whole unless two loads wrote it.                           *)
LEMMA ArriveOK ==
  ASSUME IInv, NEW t \in Tasks, Arrive(t)
  PROVE  IInv'
<1> DEFINE x == task[t]
           f == x.adapter.path
<1>1. /\ x.stage = "retrieve" /\ x.adapter.kind = "retrieve" /\ Good(x, file)
      /\ x.adapter \in Adapters /\ f \in Files /\ x.adapter.answer \in Answers
  <2>1. x.stage = "retrieve" /\ Good(x, file)
    BY DEF IInv, Arrive, At
  <2>2. x.adapter.kind = "retrieve" /\ x.adapter \in Adapters
    BY <2>1 DEF Good, TaskShape, Fresh
  <2> QED
    BY <2>1, <2>2, SourceAssumption
<1>2. ASSUME NEW h \in Answers \cup {Torn}, NEW stage \in {"open", "failed"},
             stage = "open" => h \in AsWritten(t, x.adapter.answer), Store(t, f, h, stage)
      PROVE  IInv'
  <2> DEFINE d == Disturbed(t)
             y == [x EXCEPT !.stage = stage, !.disturbed = d]
  <2>1. y = [stage |-> stage, adapter |-> x.adapter, through |-> x.through,
             view |-> x.view, channels |-> x.channels, disturbed |-> d]
    BY <1>1, Marked, Zenon DEF Good
  <2>2. (stage = "open" /\ ~x.disturbed) => h = x.adapter.answer
    BY <1>2 DEF AsWritten
  <2>3. file \in [Files -> Answers \cup {Missing, Torn}]
    BY DEF IInv
  <2>4. d \in BOOLEAN /\ (x.disturbed => d) /\ FileBacked(x.adapter)
    BY <1>1 DEF Good, TaskShape, Disturbed, FileBacked
  <2> HIDE DEF x, y, d
  <2>5. TaskShape(y)
    BY <1>1, <2>1, <2>4 DEF Good, TaskShape, Stages
  <2>6. y.stage = stage /\ y.adapter = x.adapter /\ y.disturbed = d
    BY <2>1
  <2>7. Good(y, [file EXCEPT ![f] = h])
    BY <1>1, <2>2, <2>3, <2>4, <2>5, <2>6 DEF Good, Fresh, Viewed
  <2> QED
    BY <1>1, <1>2, <2>4, <2>7, StoreOK DEF x, y, d, Adapter
<1>3. AsWritten(t, x.adapter.answer) \subseteq Answers \cup {Torn}
  BY <1>1 DEF AsWritten
<1> QED
  BY <1>2, <1>3 DEF Arrive, Adapter

(* Open: what a file or the answer just written says, renamed.              *)
LEMMA OpenOK ==
  ASSUME IInv, NEW t \in Tasks, Open(t)
  PROVE  IInv'
<1> DEFINE x == task[t]
           a == x.adapter
           b == file[OpenedPath(a)]
<1>1. /\ Good(x, file)
      /\ x.stage = "open" \/ (x.stage = "load" /\ a.kind = "file")
  BY DEF IInv, Open, At, Adapter
<1>2. CASE Fail(t)
  BY <1>1, <1>2, FailOK
<1>3. CASE b \in Answers /\ MayRename(b, a.map) /\ Load(t, ViewOf(a, b))
  <2> DEFINE view == ViewOf(a, b)
             columns == Renamed(b, a.map)
  <2>1. a \in Adapters /\ a.kind \in {"file", "retrieve"}
    BY <1>1 DEF Good, TaskShape, Fresh
  <2>2. /\ view.columns = columns /\ view.opened = b /\ view.pascal = a.pascal
        /\ view.scaled = Scaled(a, columns)
    BY DEF ViewOf
  <2>3. FileBacked(a) /\ InPascal(a) = a.pascal /\ InMeters(a) = a.meters
    BY <2>1, SourceAssumption DEF FileBacked, InPascal, InMeters
  <2>4. a.kind = "retrieve" /\ ~x.disturbed => b = a.answer
    BY <1>1 DEF Good, Fresh, OpenedPath
  <2> HIDE DEF view, columns
  <2>5. \A v \in DOMAIN columns :
          columns[v] \in DOMAIN Fields[b] /\ columns[v] = Meant(a, b, v)
    BY <1>3, <2>1, <2>3, RenamedAsMeant DEF columns
  <2>6. \A v \in DOMAIN columns : (v \in view.scaled) = (InMeters(a) /\ v = "z")
    BY <2>2, <2>3 DEF Scaled
  <2>7. Faithful(a, view)
    BY <1>3, <2>2, <2>3, <2>5, <2>6 DEF Faithful
  <2>8. (~x.disturbed /\ FileBacked(a)) => file[a.path] = view.opened
    BY <2>2 DEF OpenedPath
  <2> QED
    BY <1>1, <1>3, <2>1, <2>2, <2>4, <2>7, <2>8, LoadOK DEF Adapter, view
<1> QED
  BY <1>2, <1>3 DEF Open, Adapter

(* The sources that keep no file: variables bear their own names.           *)
LEMMA PlainFaithful ==
  ASSUME NEW a \in Adapters, ~FileBacked(a), a.answer \in Answers,
         NEW kept \in SUBSET DOMAIN Fields[a.answer], NEW scaled,
         \A v \in kept : (v \in scaled) = (InMeters(a) /\ v = "z")
  PROVE  Faithful(a, [columns |-> [v \in kept |-> v], opened |-> a.answer,
                      pascal |-> FALSE, scaled |-> scaled])
<1>1. InPascal(a) = FALSE
  BY DEF InPascal
<1>2. \A v : Meant(a, a.answer, v) = v
  BY DEF Meant
<1> QED
  BY <1>1, <1>2 DEF Faithful

(* GFS, with whatever variables it got.                                     *)
LEMMA MergeOK ==
  ASSUME IInv, NEW t \in Tasks, Merge(t)
  PROVE  IInv'
<1> DEFINE x == task[t]
           a == x.adapter
<1>1. x.stage = "load" /\ a.kind = "gfs" /\ a \in Adapters
  BY DEF IInv, Good, TaskShape, Merge, At, Adapter
<1>2. a.answer \in Answers /\ ~FileBacked(a) /\ InMeters(a) = TRUE
  BY <1>1, SourceAssumption DEF FileBacked, InMeters
<1>3. CASE Fail(t)
  BY <1>1, <1>3, FailOK
<1>4. ASSUME NEW kept \in SUBSET DOMAIN Fields[a.answer],
             Load(t, [columns |-> [v \in kept |-> v], opened |-> a.answer, pascal |-> FALSE,
                      scaled |-> kept \cap {"z"}])
      PROVE  IInv'
  <2> DEFINE view == [columns |-> [v \in kept |-> v], opened |-> a.answer, pascal |-> FALSE,
                      scaled |-> kept \cap {"z"}]
  <2>1. Faithful(a, view)
    BY <1>1, <1>2, PlainFaithful
  <2>2. view.opened = a.answer
    OBVIOUS
  <2> HIDE DEF view
  <2> QED
    BY <1>1, <1>2, <1>4, <2>1, <2>2, LoadOK DEF Adapter, view
<1> QED
  BY <1>3, <1>4 DEF Merge, Adapter

(* Sources that need no file.                                               *)
LEMMA ReceiveOK ==
  ASSUME IInv, NEW t \in Tasks, Receive(t)
  PROVE  IInv'
<1> DEFINE x == task[t]
           a == x.adapter
<1>1. x.stage = "load" /\ a \in Adapters
  BY DEF IInv, Good, TaskShape, Receive, At
<1>2. CASE Fail(t)
  BY <1>1, <1>2, FailOK
<1>3. CASE Load(t, NoView)
  BY <1>1, <1>3, LoadOK
<1>4. CASE a.kind \in {"open_meteo", "dataset"} /\ Load(t, Plain(a.answer))
  <2>1. a.answer \in Answers /\ ~FileBacked(a) /\ InMeters(a) = FALSE /\ a.kind # "file"
    BY <1>1, <1>4, SourceAssumption DEF FileBacked, InMeters
  <2>2. Faithful(a, Plain(a.answer))
    BY <1>1, <2>1, PlainFaithful DEF Plain
  <2>3. Plain(a.answer).opened = a.answer
    BY DEF Plain
  <2> QED
    BY <1>1, <1>4, <2>1, <2>2, <2>3, LoadOK DEF Adapter
<1> QED
  BY <1>2, <1>3, <1>4 DEF Receive, Adapter

(* Reading one channel, from what was opened or what replaced it.           *)
LEMMA CellType ==
  ASSUME NEW a, NEW view, Faithful(a, view), NEW b \in Answers, NEW v \in DOMAIN view.columns,
         view.columns[v] \in DOMAIN Fields[b], NEW level
  PROVE  LET c == Cell(view, b, v, level)
             at == Coordinate(view, level)
         IN  /\ c \in Value \cup {NaN}
             /\ c # NaN => /\ c.variable = view.columns[v] /\ c.at = at
                           /\ c.scaled = (v \in view.scaled) /\ c.answer = b
             /\ c = NaN => at \notin Fields[b][view.columns[v]]
<1> DEFINE x == view.columns[v]
           at == Coordinate(view, level)
           c == Cell(view, b, v, level)
           scaled == v \in view.scaled
           value == [answer |-> b, variable |-> x, at |-> at, scaled |-> scaled]
<1>1. x \in Names
  BY DEF Names
<1>2. CASE at \in Fields[b][x]
  <2>1. at \in Nat
    BY <1>1, <1>2, SourceAssumption
  <2>2. c = value
    BY <1>2 DEF Cell
  <2>3. scaled \in BOOLEAN
    OBVIOUS
  <2> HIDE DEF x, at, c, scaled
  <2>4. value \in Value
    BY <1>1, <2>1, <2>3 DEF Value
  <2>5. /\ value.answer = b /\ value.variable = x /\ value.at = at
        /\ value.scaled = scaled
    OBVIOUS
  <2>6. c # NaN /\ c \in Value
    BY <2>2, <2>4, SourceAssumption
  <2> QED
    BY <2>2, <2>5, <2>6 DEF x, at, c, scaled
<1>3. CASE at \notin Fields[b][x]
  <2>1. c = NaN
    BY <1>3 DEF Cell
  <2> QED
    BY <1>3, <2>1
<1> QED
  BY <1>2, <1>3

(* A load with one more channel is otherwise the same.                      *)
LEMMA Appended ==
  ASSUME NEW x, TaskShape(x), NEW s, NEW stage
  PROVE  [x EXCEPT !.channels = s, !.stage = stage]
           = [stage |-> stage, adapter |-> x.adapter, through |-> x.through, view |-> x.view,
              channels |-> s, disturbed |-> x.disturbed]
<1> DEFINE first == [x EXCEPT !.channels = s]
<1>1. [x EXCEPT !.channels = s, !.stage = stage] = [first EXCEPT !.stage = stage]
  BY Zenon
<1>2. first = [stage |-> x.stage, adapter |-> x.adapter, through |-> x.through,
               view |-> x.view, channels |-> s, disturbed |-> x.disturbed]
  BY DEF TaskShape
<1> HIDE DEF first
<1>3. [first EXCEPT !.stage = stage]
        = [stage |-> stage, adapter |-> x.adapter, through |-> x.through, view |-> x.view,
           channels |-> s, disturbed |-> x.disturbed]
  BY <1>2
<1> QED
  BY <1>1, <1>3, Zenon

(* One channel more, of what was opened or disturbed.                       *)
LEMMA ReadOK ==
  ASSUME IInv, NEW t \in Tasks, Read(t)
  PROVE  IInv'
<1> DEFINE x == task[t]
           view == x.view
           k == Len(x.channels) + 1
           v == VarAt(k)
<1>1. x.stage = "prepare" /\ Good(x, file) /\ TaskShape(x)
  BY DEF IInv, Read, At, Good
<1>2. CASE Fail(t)
  BY <1>1, <1>2, FailOK
<1>3. ASSUME v \in DOMAIN view.columns, HasLevel(view, LevelAt(k)),
             NEW b \in Sources(t, v), UNCHANGED file,
             Become(t, [x EXCEPT
               !.channels = Append(x.channels, Cell(view, b, v, LevelAt(k))),
               !.stage = IF k = Channels THEN "done" ELSE "prepare"])
      PROVE  IInv'
  <2> DEFINE c == Cell(view, b, v, LevelAt(k))
             s == Append(x.channels, c)
             stage == IF k = Channels THEN "done" ELSE "prepare"
             y == [x EXCEPT !.channels = s, !.stage = stage]
  <2>1. y = [stage |-> stage, adapter |-> x.adapter, through |-> x.through, view |-> view,
             channels |-> s, disturbed |-> x.disturbed]
    BY <1>1, Appended
  <2>2. view # NoView
    BY <1>3 DEF NoView
  <2>3. /\ Faithful(x.adapter, view)
        /\ (x.adapter.kind # "file" /\ ~x.disturbed) => view.opened = x.adapter.answer
        /\ (~x.disturbed /\ FileBacked(x.adapter)) => file[x.adapter.path] = view.opened
    BY <1>1, <2>2 DEF Good, Viewed
  <2>14. (~x.disturbed /\ FileBacked(x.adapter)) => Writing(t, x.adapter.path) = {}
    BY <1>1, <2>2 DEF IInv, Alone, Busy, Adapter
  <2>4. /\ b \in Answers /\ view.columns[v] \in DOMAIN Fields[b]
        /\ ~x.disturbed => b = view.opened
    BY <1>3, <2>3, <2>14 DEF Sources, Adapter, OpenedPath, Faithful
  <2>5. /\ c \in Value \cup {NaN}
        /\ c # NaN => /\ c.variable = view.columns[v]
                      /\ c.at = Coordinate(view, LevelAt(k))
                      /\ c.scaled = (v \in view.scaled) /\ c.answer = b
        /\ c = NaN => Coordinate(view, LevelAt(k)) \notin Fields[b][view.columns[v]]
    BY <1>3, <2>3, <2>4, CellType
  <2>6. /\ x.channels \in Seq(Value \cup {NaN}) /\ Len(x.channels) \in Nat
        /\ Len(x.channels) < Channels /\ Channels \in Nat
    BY <1>1, Positive DEF TaskShape
  <2> HIDE DEF c
  <2>7. s \in Seq(Value \cup {NaN}) /\ Len(s) = k /\ s[k] = c /\ k \in Nat
        /\ \A i \in 1 .. Len(x.channels) : s[i] = x.channels[i]
    BY <2>5, <2>6
  <2>8. stage \in {"prepare", "done"} /\ (stage = "prepare" => k < Channels)
        /\ (stage = "done" => k = Channels)
    BY <2>6
  <2> HIDE DEF s, stage, y
  <2>9. y.stage = stage /\ y.adapter = x.adapter /\ y.view = view /\ y.channels = s
        /\ y.disturbed = x.disturbed /\ y.through = x.through
    BY <2>1
  <2>10. TaskShape(y)
    <3>1. (y.stage = "new") = (y.adapter = None)
      BY <1>1, <2>8, <2>9 DEF TaskShape
    <3> QED
      BY <1>1, <2>1, <2>7, <2>8, <2>9, <3>1 DEF TaskShape, Stages
  <2>11. Fresh(y, file) /\ Viewed(y, file)
    BY <1>1, <2>3, <2>8, <2>9 DEF Good, Fresh, Viewed
  <2>12. ASSUME NEW i \in 1 .. Len(s) PROVE Channel(y, i)
    <3>1. CASE i = k
      BY <1>3, <2>4, <2>5, <2>7, <2>9, <3>1 DEF Channel
    <3>2. CASE i # k
      <4>1. i \in 1 .. Len(x.channels)
        BY <2>6, <2>7, <3>2
      <4>2. Channel(x, i)
        BY <1>1, <4>1 DEF Good
      <4> QED
        BY <2>7, <2>9, <4>1, <4>2 DEF Channel
    <3> QED
      BY <3>1, <3>2
  <2>13. Good(y, file)
    BY <2>9, <2>10, <2>11, <2>12 DEF Good
  <2>15. y.stage \notin {"retrieve", "open"}
         /\ (Busy(y) /\ ~y.disturbed => Writing(t, y.adapter.path) = {})
    BY <2>8, <2>9, <2>14 DEF Busy
  <2> QED
    BY <1>3, <2>13, <2>15, BecomeOK DEF y, s, c, stage
<1> QED
  BY <1>2, <1>3 DEF Read

(* No load has begun.                                                       *)
LEMMA InitOK == Init => IInv
<1> SUFFICES ASSUME Init PROVE IInv
  OBVIOUS
<1>1. TaskShape(NoTask)
  <2>1. NoTask = [stage |-> NoTask.stage, adapter |-> NoTask.adapter,
                through |-> NoTask.through, view |-> NoTask.view,
                channels |-> NoTask.channels, disturbed |-> NoTask.disturbed]
    BY DEF NoTask
  <2>2. /\ NoTask.stage = "new" /\ NoTask.adapter = None /\ NoTask.view = NoView
        /\ NoTask.channels = << >> /\ NoTask.disturbed = FALSE
    BY DEF NoTask
  <2>3. (NoTask.stage = "new") = (NoTask.adapter = None)
    BY <2>2
  <2>4. NoTask.disturbed \in BOOLEAN /\ NoTask.stage \in Stages
        /\ NoTask.adapter \in Adapters \cup {None}
    BY <2>2 DEF Stages
  <2> QED
    BY <2>1, <2>2, <2>3, <2>4 DEF TaskShape
<1>2. NoTask.stage = "new" /\ NoTask.disturbed = FALSE
  BY DEF NoTask
<1>3. Good(NoTask, file)
  BY <1>1, <1>2 DEF Good, Fresh, Viewed
<1>4. ~Busy(NoTask)
  BY <1>2 DEF Busy
<1> QED
  BY <1>3, <1>4 DEF Init, IInv, Alone

-----------------------------------------------------------------------------
(* What a marked load may have got: of its file, what its loads save.       *)

TraceOf(x, fl, saved) ==
  LET p == x.adapter.path IN
  (x.stage # "new" /\ FileBacked(x.adapter)) =>
    /\ x.stage \in {"retrieve", "open"} => fl[p] \in saved \cup {Torn}
    /\ (x.stage = "prepare" /\ x.view # NoView) => fl[p] \in saved \cup {Torn, x.view.opened}
    /\ (x.adapter.kind = "retrieve" /\ x.view # NoView) => x.view.opened \in saved
    /\ \A k \in DOMAIN x.channels :
         x.channels[k] = NaN \/ x.channels[k].answer \in saved \cup {x.view.opened}

Traced == \A t \in Tasks : TraceOf(task[t], file, Saved(Adapter(t).path))

(* Two loads that differ only in their stage and mark.                      *)
Alike(x, y) ==
  x.adapter = y.adapter /\ x.view = y.view /\ x.channels = y.channels

(* What a step of t does to the files and to the other loads.               *)
StepOf(t) ==
  /\ \A o \in Tasks \ {t} : task'[o].stage = task[o].stage /\ Alike(task'[o], task[o])
  /\ task[t].stage # "new" => task'[t].adapter = task[t].adapter
  /\ task'[t].stage # "new"
  /\ \/ file' = file
     \/ LET a == task[t].adapter IN
        /\ task[t].stage # "new" /\ a.kind = "retrieve" /\ a.path \in Files
        /\ file'[a.path] \in {Torn, a.answer}
        /\ \A g \in Files \ {a.path} : file'[g] = file[g]

(* A load once begun keeps its adapter.                                     *)
LEMMA SavedGrows ==
  ASSUME NEW t \in Tasks, StepOf(t), NEW f
  PROVE  Saved(f) \subseteq Saved(f)'
<1> SUFFICES ASSUME NEW o \in Tasks, ~At(o, "new"), Adapter(o).kind = "retrieve",
                    Adapter(o).path = f
             PROVE  ~At(o, "new")' /\ Adapter(o)' = Adapter(o)
  BY DEF Saved
<1> QED
  BY DEF StepOf, Alike, At, Adapter

(* The other loads stay traced.                                             *)
LEMMA TraceStays ==
  ASSUME NEW t \in Tasks, StepOf(t), Traced, IInv,
         NEW q, q = task'[t].adapter.path, TraceOf(task'[t], file', Saved(q)')
  PROVE  Traced'
<1> SUFFICES ASSUME NEW o \in Tasks, NEW p, p = task'[o].adapter.path, o # t
             PROVE  TraceOf(task'[o], file', Saved(p)')
  BY DEF Traced, Adapter
<1> DEFINE x == task[o]
           y == task'[o]
<1>1. y.stage = x.stage /\ y.adapter = x.adapter /\ y.view = x.view /\ y.channels = x.channels
  BY DEF StepOf, Alike
<1>2. Saved(p) \subseteq Saved(p)' /\ x.adapter.path = p
  BY <1>1, SavedGrows
<1>3. TraceOf(x, file, Saved(p))
  BY <1>2 DEF Traced, Adapter
<1>4. (x.stage # "new" /\ FileBacked(x.adapter)) =>
        file'[p] = file[p] \/ file'[p] \in Saved(p)' \cup {Torn}
  <2>1. CASE file' = file
    BY <2>1
  <2>2. CASE file' # file
    <3>0. PICK a : a = task[t].adapter
      OBVIOUS
    <3>1. /\ task[t].stage # "new" /\ a.kind = "retrieve" /\ a.path \in Files
          /\ file'[a.path] \in {Torn, a.answer}
          /\ \A g \in Files \ {a.path} : file'[g] = file[g]
          /\ task'[t].adapter = a /\ task'[t].stage # "new"
      BY <2>2, <3>0 DEF StepOf
    <3>2. a.answer \in Saved(a.path)'
      BY <3>1 DEF Saved, At, Adapter
    <3>3. (x.stage # "new" /\ FileBacked(x.adapter)) => p \in Files
      BY <1>2, SourceAssumption DEF IInv, Good, TaskShape, FileBacked
    <3>4. CASE p = a.path
      BY <3>1, <3>2, <3>4
    <3>5. CASE p # a.path
      BY <3>1, <3>3, <3>5
    <3> QED
      BY <3>4, <3>5
  <2> QED
    BY <2>1, <2>2
<1>5. TraceOf(y, file', Saved(p)')
  <2> HIDE DEF x, y
  <2>1. p = y.adapter.path
    BY <1>1, <1>2
  <2> QED
    BY <1>1, <1>2, <1>3, <1>4, <2>1 DEF TraceOf
<1> QED
  BY <1>5

(* A step that changes only t.                                              *)
LEMMA BecomeStep ==
  ASSUME IInv, NEW t \in Tasks, NEW y, Become(t, y), UNCHANGED file, y.stage # "new",
         task[t].stage # "new" => y.adapter = task[t].adapter
  PROVE  StepOf(t) /\ task'[t] = y
<1>1. task' = [o \in Tasks |-> IF o = t THEN y ELSE task[o]]
  BY DEF IInv, Become
<1> QED
  BY <1>1 DEF StepOf, Alike

(* A load that raises keeps what it has.                                    *)
LEMMA FailTraced ==
  ASSUME IInv, Traced, NEW t \in Tasks, task[t].stage # "new", Fail(t)
  PROVE  Traced'
<1> DEFINE x == task[t]
           y == [x EXCEPT !.stage = "failed"]
<1>1. TaskShape(x) /\ Become(t, y) /\ UNCHANGED file
  BY DEF IInv, Good, Fail
<1>2. /\ y = [stage |-> "failed", adapter |-> x.adapter, through |-> x.through,
              view |-> x.view, channels |-> x.channels, disturbed |-> x.disturbed]
  BY <1>1, Staged
<1> HIDE DEF y
<1>3. y.stage = "failed" /\ y.adapter = x.adapter /\ y.view = x.view /\ y.channels = x.channels
  BY <1>2
<1>4. StepOf(t) /\ task'[t] = y
  BY <1>1, <1>3, BecomeStep
<1>0. PICK p : p = x.adapter.path
  OBVIOUS
<1>5. Saved(p) \subseteq Saved(p)' /\ p = task'[t].adapter.path
  BY <1>0, <1>3, <1>4, SavedGrows
<1>6. TraceOf(x, file, Saved(p))
  BY <1>0 DEF Traced, Adapter
<1>7. TraceOf(y, file', Saved(p)')
  BY <1>1, <1>3, <1>5, <1>6 DEF TraceOf
<1> QED
  BY <1>4, <1>5, <1>7, TraceStays

(* One that has read nothing and uses no file has nothing to trace.         *)
LEMMA EmptyTraced ==
  ASSUME IInv, Traced, NEW t \in Tasks, NEW y, Become(t, y), UNCHANGED file,
         y.stage \in {"import", "load", "prepare"}, y.channels = << >>,
         y.view = NoView \/ ~FileBacked(y.adapter),
         task[t].stage # "new" => y.adapter = task[t].adapter
  PROVE  Traced'
<1>1. StepOf(t) /\ task'[t] = y /\ file' = file
  BY BecomeStep
<1>2. \A s : TraceOf(y, file', s)
  BY DEF TraceOf
<1>3. PICK p : p = task'[t].adapter.path
  OBVIOUS
<1>4. TraceOf(task'[t], file', Saved(p)')
  BY <1>1, <1>2
<1> QED
  BY <1>1, <1>3, <1>4, TraceStays

(* A store by the service of t.                                             *)
LEMMA StoreTraced ==
  ASSUME IInv, Traced, NEW t \in Tasks, task[t].stage \in {"load", "retrieve"},
         Adapter(t).kind = "retrieve", NEW h \in {Torn, Adapter(t).answer},
         NEW stage \in {"retrieve", "open", "failed"}, Store(t, Adapter(t).path, h, stage)
  PROVE  Traced'
<1> DEFINE x == task[t]
           d == Disturbed(t)
           y == [x EXCEPT !.stage = stage, !.disturbed = d]
<1>0. PICK a, f : a = x.adapter /\ f = a.path
  OBVIOUS
<1>1. TaskShape(x) /\ a \in Adapters /\ f \in Files /\ a.kind = "retrieve"
      /\ h \in {Torn, a.answer} /\ x.channels = << >> /\ x.view = NoView
      /\ file \in [Files -> Answers \cup {Missing, Torn}]
  BY <1>0, SourceAssumption DEF IInv, Good, TaskShape, Adapter
<1>2. file' = [file EXCEPT ![f] = h]
  BY <1>0 DEF Store, Adapter
<1>3. task' = [o \in Tasks |->
       IF o = t THEN y ELSE [task[o] EXCEPT !.disturbed = (@ \/ Using(o, f))]]
  BY <1>0 DEF Store, Adapter
<1>4. y = [stage |-> stage, adapter |-> x.adapter, through |-> x.through, view |-> x.view,
           channels |-> x.channels, disturbed |-> d]
  <2>1. TaskShape(x)
    BY <1>1
  <2>2. \A s, e : [x EXCEPT !.stage = s, !.disturbed = e]
                = [stage |-> s, adapter |-> x.adapter, through |-> x.through, view |-> x.view,
                   channels |-> x.channels, disturbed |-> e]
    <3> HIDE DEF x
    <3> QED
      BY <2>1, Marked, Zenon
  <2> HIDE DEF x, d
  <2> QED
    BY <2>2, Zenon
<1>5. task'[t] = y
  BY <1>3
<1>6. ASSUME NEW o \in Tasks \ {t}
      PROVE  task'[o].stage = task[o].stage /\ Alike(task'[o], task[o])
  <2>1. task'[o] = [task[o] EXCEPT !.disturbed = (task[o].disturbed \/ Using(o, f))]
    BY <1>3, <1>6
  <2>2. TaskShape(task[o])
    BY <1>6 DEF IInv, Good
  <2> QED
    BY <2>1, <2>2 DEF TaskShape, Alike
<1> HIDE DEF y, d
<1>7. y.stage = stage /\ y.adapter = a /\ y.view = NoView /\ y.channels = << >>
  BY <1>0, <1>1, <1>4
<1>8. StepOf(t)
  BY <1>0, <1>1, <1>2, <1>5, <1>6, <1>7 DEF StepOf
<1>9. a.answer \in Saved(f)' /\ f = task'[t].adapter.path
  BY <1>0, <1>1, <1>5, <1>7 DEF Saved, At, Adapter
<1>10. file'[f] \in Saved(f)' \cup {Torn}
  BY <1>1, <1>2, <1>9
<1> HIDE DEF x
<1>11. y.adapter.path = f
  BY <1>0, <1>7
<1>12. TraceOf(y, file', Saved(f)')
  BY <1>7, <1>10, <1>11 DEF TraceOf
<1> QED
  BY <1>5, <1>8, <1>9, <1>12, TraceStays

(* What is opened in a file its loads write is the answer of one of them.   *)
LEMMA OpenTraced ==
  ASSUME IInv, Traced, NEW t \in Tasks, Open(t)
  PROVE  Traced'
<1> DEFINE x == task[t]
           a == x.adapter
           b == file[a.path]
           view == ViewOf(a, b)
           d == Disturbed(t)
           y == [x EXCEPT !.stage = "prepare", !.view = view, !.disturbed = d]
<1>1. /\ TaskShape(x) /\ (x.stage = "open" \/ (x.stage = "load" /\ a.kind = "file"))
      /\ FileBacked(a) /\ x.channels = << >>
  BY DEF IInv, Good, TaskShape, Fresh, Open, At, Adapter, FileBacked
<1>2. CASE Fail(t)
  BY <1>1, <1>2, FailTraced
<1>3. CASE b \in Answers /\ Load(t, view)
  <2>1. Become(t, y) /\ UNCHANGED file
    BY <1>3 DEF Load
  <2>2. view.opened = b
    BY DEF ViewOf
  <2> HIDE DEF view, d
  <2>3. y.stage = "prepare" /\ y.adapter = a /\ y.view = view /\ y.channels = << >>
    BY <1>1 DEF TaskShape
  <2> HIDE DEF y
  <2>4. StepOf(t) /\ task'[t] = y
    BY <1>1, <2>1, <2>3, BecomeStep
  <2>0. PICK p : p = a.path
    OBVIOUS
  <2>5. Saved(p) \subseteq Saved(p)' /\ p = task'[t].adapter.path /\ file' = file
    BY <2>0, <2>1, <2>3, <2>4, SavedGrows
  <2>6. a.kind = "retrieve" => b \in Saved(p)
    <3>1. ASSUME a.kind = "retrieve" PROVE file[a.path] \in Saved(p) \cup {Torn}
      BY <1>1, <2>0, <3>1 DEF Traced, TraceOf, Adapter
    <3> QED
      BY <1>3, <3>1, SourceAssumption
  <2>7. TraceOf(y, file', Saved(p)')
    <3> HIDE DEF a, b
    <3>1. y.adapter.path = p /\ file'[p] = view.opened
      BY <2>0, <2>2, <2>3, <2>5 DEF b
    <3> QED
      BY <2>2, <2>3, <2>5, <2>6, <3>1 DEF TraceOf
  <2> QED
    BY <2>4, <2>5, <2>7, TraceStays
<1> QED
  BY <1>2, <1>3 DEF Open, Adapter, OpenedPath

(* A value read is of what was opened or of what a load of the file saves.  *)
LEMMA ReadTraced ==
  ASSUME IInv, Traced, NEW t \in Tasks, Read(t)
  PROVE  Traced'
<1> DEFINE x == task[t]
           a == x.adapter
           view == x.view
           k == Len(x.channels) + 1
           v == VarAt(k)
<1>0. PICK p : p = a.path
  OBVIOUS
<1>1. x.stage = "prepare" /\ Good(x, file) /\ TaskShape(x)
  BY DEF IInv, Read, At, Good
<1>2. CASE Fail(t)
  BY <1>1, <1>2, FailTraced
<1>3. ASSUME v \in DOMAIN view.columns, NEW b \in Sources(t, v), UNCHANGED file,
             Become(t, [x EXCEPT
               !.channels = Append(x.channels, Cell(view, b, v, LevelAt(k))),
               !.stage = IF k = Channels THEN "done" ELSE "prepare"])
      PROVE  Traced'
  <2> DEFINE c == Cell(view, b, v, LevelAt(k))
             s == Append(x.channels, c)
             stage == IF k = Channels THEN "done" ELSE "prepare"
             y == [x EXCEPT !.channels = s, !.stage = stage]
  <2>1. y = [stage |-> stage, adapter |-> a, through |-> x.through, view |-> view,
             channels |-> s, disturbed |-> x.disturbed]
    BY <1>1, Appended
  <2>2. view # NoView /\ stage \in {"prepare", "done"}
    BY <1>3 DEF NoView
  <2>3. TraceOf(x, file, Saved(p))
    BY <1>0 DEF Traced, Adapter
  <2>4. FileBacked(a) => b \in Saved(p) \cup {view.opened}
    <3>1. ASSUME FileBacked(a), NEW o \in Writing(t, p) PROVE Adapter(o).answer \in Saved(p)
      <4>1. Good(task[o], file) /\ task[o].stage = "retrieve" /\ Adapter(o).path = p
        BY <3>1 DEF IInv, Writing, At
      <4> QED
        BY <3>1, <4>1 DEF Good, Fresh, Saved, At, Adapter, Writing
    <3>2. FileBacked(a) => file[p] \in Saved(p) \cup {Torn, view.opened}
      BY <1>0, <1>1, <2>2, <2>3 DEF TraceOf
    <3>3. Torn \notin Answers
      BY SourceAssumption
    <3>4. FileBacked(a) =>
            \/ b = view.opened
            \/ /\ b \in Answers
               /\ b = file[p] \/ \E o \in Writing(t, p) : b = Adapter(o).answer
      BY <1>0, <1>3 DEF Sources, Adapter, OpenedPath
    <3> HIDE DEF a, view
    <3> QED
      BY <3>1, <3>2, <3>3, <3>4
  <2>5. c = NaN \/ c.answer = b
    BY DEF Cell
  <2>6. /\ x.channels \in Seq(Value \cup {NaN}) /\ Len(x.channels) \in Nat
    BY <1>1 DEF TaskShape
  <2> HIDE DEF c
  <2>7. /\ \A i \in DOMAIN s : i \in DOMAIN x.channels \/ i = k
        /\ s[k] = c /\ \A i \in DOMAIN x.channels : s[i] = x.channels[i]
    BY <2>6
  <2> HIDE DEF s, stage, y
  <2>8. y.stage = stage /\ y.adapter = a /\ y.view = view /\ y.channels = s
    BY <2>1
  <2>9. StepOf(t) /\ task'[t] = y /\ file' = file
    BY <1>1, <1>3, <2>2, <2>8, BecomeStep DEF y, s, c, stage
  <2>10. Saved(p) \subseteq Saved(p)' /\ p = task'[t].adapter.path
    BY <1>0, <2>8, <2>9, SavedGrows
  <2>11. TraceOf(y, file', Saved(p)')
    <3> HIDE DEF a, view, x
    <3>1. x.stage = "prepare" /\ x.adapter = a /\ a.path = p /\ x.view = view /\ Saved(p) \subseteq Saved(p)'
      BY <1>0, <1>1, <2>10 DEF a, view
    <3>2. FileBacked(a) =>
            /\ file[p] \in Saved(p)' \cup {Torn, view.opened}
            /\ a.kind = "retrieve" => view.opened \in Saved(p)'
            /\ \A i \in DOMAIN x.channels :
                 x.channels[i] = NaN \/ x.channels[i].answer \in Saved(p)' \cup {view.opened}
      BY <2>2, <2>3, <3>1 DEF TraceOf
    <3>3. FileBacked(a) => \A i \in DOMAIN s :
            s[i] = NaN \/ s[i].answer \in Saved(p)' \cup {view.opened}
      BY <2>4, <2>5, <2>7, <3>1, <3>2
    <3> QED
      BY <2>2, <2>8, <2>9, <3>1, <3>2, <3>3 DEF TraceOf
  <2> QED
    BY <2>9, <2>10, <2>11, TraceStays
<1> QED
  BY <1>2, <1>3 DEF Read

(* Every step keeps the trace.                                              *)
LEMMA TracedStep == ASSUME IInv, Traced, [Next]_vars PROVE Traced'
<1>1. CASE UNCHANGED vars
  BY <1>1 DEF Traced, Saved, Adapter, At, vars
<1>2. ASSUME NEW t \in Tasks, NEW a \in Adapters, NEW through \in BOOLEAN, Start(t, a, through)
      PROVE  Traced'
  <2> DEFINE y == [NoTask EXCEPT !.stage = "import", !.adapter = a, !.through = through]
  <2>1. y.stage = "import" /\ y.channels = << >> /\ y.view = NoView
    BY DEF NoTask
  <2>2. Become(t, y) /\ UNCHANGED file /\ task[t].stage = "new"
    BY <1>2 DEF Start, At
  <2> HIDE DEF y
  <2> QED
    BY <2>1, <2>2, EmptyTraced
<1>3. ASSUME NEW t \in Tasks, Import(t) PROVE Traced'
  <2> DEFINE x == task[t]
  <2>1. TaskShape(x) /\ x.stage = "import" /\ x.view = NoView /\ x.channels = << >>
    BY <1>3 DEF IInv, Good, TaskShape, Import, At
  <2>2. CASE Fail(t)
    BY <2>1, <2>2, FailTraced
  <2>3. ASSUME NEW stage \in {"load", "prepare"}, Become(t, [x EXCEPT !.stage = stage]),
               UNCHANGED file
        PROVE  Traced'
    <3> DEFINE y == [x EXCEPT !.stage = stage]
    <3>1. y = [stage |-> stage, adapter |-> x.adapter, through |-> x.through,
               view |-> x.view, channels |-> x.channels, disturbed |-> x.disturbed]
      BY <2>1, Staged
    <3>2. y.stage = stage /\ y.adapter = x.adapter /\ y.view = NoView /\ y.channels = << >>
      BY <2>1, <3>1
    <3> HIDE DEF y
    <3> QED
      BY <2>3, <3>2, EmptyTraced DEF y
  <2> QED
    BY <1>3, <2>2, <2>3 DEF Import
<1>4. ASSUME NEW t \in Tasks, Retrieve(t) PROVE Traced'
  <2>1. task[t].stage = "load" /\ Adapter(t).kind = "retrieve"
    BY <1>4 DEF Retrieve, At
  <2> QED
    BY <1>4, <2>1, FailTraced, StoreTraced DEF Retrieve
<1>5. ASSUME NEW t \in Tasks, Arrive(t) PROVE Traced'
  <2>1. task[t].stage = "retrieve" /\ Adapter(t).kind = "retrieve"
    BY <1>5 DEF Arrive, At, Adapter, IInv, Good, Fresh
  <2>2. AsWritten(t, Adapter(t).answer) \subseteq {Torn, Adapter(t).answer}
    BY DEF AsWritten
  <2> QED
    BY <1>5, <2>1, <2>2, StoreTraced DEF Arrive
<1>6. ASSUME NEW t \in Tasks, Merge(t) \/ Receive(t) PROVE Traced'
  <2> DEFINE x == task[t]
  <2>1. TaskShape(x) /\ x.stage = "load" /\ x.channels = << >>
    BY <1>6 DEF IInv, Good, TaskShape, Merge, Receive, At
  <2>2. CASE Fail(t)
    BY <2>1, <2>2, FailTraced
  <2>3. ASSUME NEW view, Load(t, view), view = NoView \/ ~FileBacked(x.adapter) PROVE Traced'
    <3> DEFINE d == Disturbed(t)
               y == [x EXCEPT !.stage = "prepare", !.view = view, !.disturbed = d]
    <3>1. Become(t, y) /\ UNCHANGED file
      BY <2>3 DEF Load
    <3> HIDE DEF d
    <3>2. y.stage = "prepare" /\ y.adapter = x.adapter /\ y.view = view /\ y.channels = << >>
      BY <2>1 DEF TaskShape
    <3> HIDE DEF y
    <3> QED
      BY <2>3, <3>1, <3>2, EmptyTraced
  <2>4. CASE Merge(t)
    <3>1. ~FileBacked(x.adapter)
      BY <2>4 DEF Merge, FileBacked, Adapter
    <3> QED
      BY <2>2, <2>3, <2>4, <3>1 DEF Merge
  <2>5. CASE Receive(t)
    BY <2>2, <2>3, <2>5 DEF Receive, FileBacked, Adapter
  <2> QED
    BY <1>6, <2>4, <2>5
<1> QED
  BY <1>1, <1>2, <1>3, <1>4, <1>5, <1>6, OpenTraced, ReadTraced DEF Next

(* A load has nothing to trace at first.                                    *)
LEMMA TracedInit == Init => Traced
  BY DEF Init, Traced, TraceOf, NoTask

-----------------------------------------------------------------------------
(* The theorems.                                                            *)

(* The invariant holds however loads interleave on the files they share     *)
(* (data_sources.py, model.py:629-675).                                     *)
THEOREM Inductive == Spec => []IInv
<1>1. Init => IInv
  BY InitOK
<1>2. IInv /\ [Next]_vars => IInv'
  <2> SUFFICES ASSUME IInv, [Next]_vars PROVE IInv'
    OBVIOUS
  <2>1. ASSUME NEW t \in Tasks, NEW a \in Adapters, NEW through \in BOOLEAN,
               Start(t, a, through)
        PROVE  IInv'
    BY <2>1, StartOK
  <2>2. ASSUME NEW t \in Tasks,
               \/ Import(t) \/ Retrieve(t) \/ Arrive(t) \/ Open(t) \/ Merge(t) \/ Receive(t)
               \/ Read(t)
        PROVE  IInv'
    BY <2>2, ImportOK, RetrieveOK, ArriveOK, OpenOK, MergeOK, ReceiveOK, ReadOK
  <2>3. CASE UNCHANGED vars
    BY <2>3 DEF IInv, Alone, Writing, Adapter, At, vars
  <2> QED
    BY <2>1, <2>2, <2>3 DEF Next
<1> QED
  BY <1>1, <1>2, PTL DEF Spec

(* The types; a forecast starts from all channels (model.py:650-675).       *)
THEOREM TypeCorrect == Spec => []TypeOK
<1>1. IInv => TypeOK
  <2> SUFFICES ASSUME IInv, NEW t \in Tasks
               PROVE  /\ task[t].stage \in Stages
                      /\ At(t, "new") = (Adapter(t) = None)
                      /\ task[t].channels \in Seq(Value \cup {NaN})
                      /\ At(t, "done") =>
                           Len(task[t].channels) = Len(Levels) * Len(LevelVars)
                      /\ At(t, "prepare") =>
                           Len(task[t].channels) < Len(Levels) * Len(LevelVars)
    BY DEF TypeOK, IInv, Stages
  <2>1. TaskShape(task[t])
    BY DEF IInv, Good
  <2> QED
    BY <2>1 DEF TaskShape, At, Adapter, Channels
<1> QED
  BY <1>1, Inductive, PTL

(* A forecast starts from its own data alone, unless another load wrote     *)
(* into its file meanwhile, and then from what loads save in that file      *)
(* (data_sources.py:185, 209-210, 251, 284).                                *)
THEOREM DataIsOwn == Spec => []OwnData
<1>1. IInv /\ Traced => OwnData
  <2> SUFFICES ASSUME IInv, Traced, NEW t \in Tasks, At(t, "done"),
                      NEW k \in DOMAIN task[t].channels, task[t].channels[k] # NaN
               PROVE  \/ task[t].channels[k].answer = Own(t)
                      \/ /\ task[t].disturbed
                         /\ task[t].channels[k].answer \in Saved(Adapter(t).path)
    BY DEF OwnData
  <2> DEFINE x == task[t]
             a == x.adapter
             c == x.channels[k]
  <2>1. Good(x, file) /\ x.stage = "done"
    BY DEF IInv, At
  <2>2. Channel(x, k)
    BY <2>1 DEF Good, TaskShape
  <2>3. x.view # NoView
    BY <2>2 DEF Channel, NoView
  <2>4. x.disturbed \/ c.answer = x.view.opened
    BY <2>2 DEF Channel
  <2>5. (a.kind # "file" /\ ~x.disturbed) => x.view.opened = a.answer
    BY <2>1, <2>3 DEF Good, Viewed
  <2>6. FileBacked(a) =>
          /\ c.answer \in Saved(a.path) \cup {x.view.opened}
          /\ a.kind = "retrieve" => x.view.opened \in Saved(a.path)
    BY <2>1, <2>3 DEF Traced, TraceOf, Adapter
  <2>7. x.disturbed => FileBacked(a)
    BY <2>1 DEF Good, Fresh
  <2> QED
    BY <2>4, <2>5, <2>6, <2>7 DEF Own, Adapter, FileBacked
<1>2. Spec => []Traced
  <2>1. Init => Traced
    BY TracedInit
  <2>2. IInv /\ Traced /\ [Next]_vars => Traced'
    BY TracedStep
  <2> QED
    BY <2>1, <2>2, Inductive, PTL DEF Spec
<1> QED
  BY <1>1, <1>2, Inductive, PTL

(* Each channel holds the variable, level and unit meant for it, and is     *)
(* NaN only where the answer has no value (data_sources.py:679-693).        *)
THEOREM FieldsMapped == Spec => []FieldsAsMapped
<1>1. IInv => FieldsAsMapped
  <2> SUFFICES ASSUME IInv, NEW t \in Tasks, At(t, "done"),
                      NEW i \in DOMAIN Levels, NEW j \in DOMAIN LevelVars
               PROVE  LET a == Adapter(t)
                          c == task[t].channels[(i - 1) * Len(LevelVars) + j]
                          x == Meant(a, task[t].view.opened, LevelVars[j])
                          at == IF InPascal(a) THEN 100 * Levels[i] ELSE Levels[i]
                          known == Fields[task[t].view.opened]
                      IN  IF c # NaN
                          THEN /\ c.variable = x /\ c.at = at
                               /\ c.scaled = (InMeters(a) /\ LevelVars[j] = "z")
                          ELSE \/ task[t].disturbed
                               \/ at \notin known[x] /\ \E y \in DOMAIN known : at \in known[y]
    BY DEF FieldsAsMapped
  <2> DEFINE x == task[t]
             a == x.adapter
             view == x.view
             k == (i - 1) * Len(LevelVars) + j
             v == LevelVars[j]
             at == IF InPascal(a) THEN 100 * Levels[i] ELSE Levels[i]
  <2>1. Good(x, file) /\ x.stage = "done"
    BY DEF IInv, At
  <2>2. k \in 1 .. Channels /\ LevelAt(k) = Levels[i] /\ VarAt(k) = v
    BY IndexOf
  <2>3. k \in 1 .. Len(x.channels)
    BY <2>1, <2>2 DEF Good, TaskShape
  <2>4. Channel(x, k)
    BY <2>1, <2>3 DEF Good
  <2>5. v \in DOMAIN view.columns
    BY <2>2, <2>4 DEF Channel
  <2>6. Faithful(a, view)
    BY <2>1, <2>5 DEF Good, Viewed, NoView
  <2>7. Coordinate(view, LevelAt(k)) = at
    BY <2>2, <2>6 DEF Coordinate, Faithful
  <2>8. /\ view.columns[v] = Meant(a, view.opened, v)
        /\ (v \in view.scaled) = (InMeters(a) /\ v = "z")
    BY <2>5, <2>6 DEF Faithful
  <2>9. HasLevel(view, LevelAt(k)) =>
          \E y \in DOMAIN Fields[view.opened] : at \in Fields[view.opened][y]
    BY <2>6, <2>7 DEF HasLevel, Faithful
  <2> HIDE DEF k, at
  <2>10. CASE x.channels[k] # NaN
    BY <2>2, <2>4, <2>7, <2>8, <2>10 DEF Channel, Adapter, k, at
  <2>11. CASE x.channels[k] = NaN
    <3>1. \/ x.disturbed
          \/ /\ at \notin Fields[view.opened][Meant(a, view.opened, v)]
             /\ \E y \in DOMAIN Fields[view.opened] : at \in Fields[view.opened][y]
      BY <2>2, <2>4, <2>7, <2>8, <2>9, <2>11 DEF Channel
    <3> QED
      BY <2>11, <3>1 DEF Adapter, k, at
  <2> QED
    BY <2>10, <2>11
<1> QED
  BY <1>1, Inductive, PTL

=============================================================================
