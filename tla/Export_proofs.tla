----------------------------- MODULE Export_proofs -----------------------------
(***************************************************************************)
(* Proofs about Export, for any number of levels, variables, steps,        *)
(* requests and exports into one path.                                     *)
(*                                                                         *)
(* While a forecast is written each file is known exactly (Present): the   *)
(* files before the position of the loop have the step at hand, the others *)
(* the one before.  When the next export begins only less is needed: what  *)
(* can be read is of one run (Past).                                       *)
(***************************************************************************)
EXTENDS Export, TLAPS

(* A NetCDF file of len steps with n of run r written, a store with n.      *)
Sheet(r, n, len, f) == [k \in 1 .. len |-> IF k <= n THEN <<r, k, f>> ELSE Fill]

Stack(r, n, f) == [k \in 1 .. n |-> <<r, k, f>>]

(* A store with the step after them cut short, or not.                      *)
StackOrCut(x, r, n, f) == x = Stack(r, n, f) \/ x = Append(Stack(r, n, f), Fill)

(* How many steps of this run the file has.                                 *)
Depth(f) == IF phase = "write" /\ f >= file THEN step - 1 ELSE step

Shape ==
  /\ phase \in {"idle", "create", "run", "write", "archive", "done", "failed"}
  /\ request \in Requests /\ file \in Files
  /\ run \in 0 .. MaxRuns /\ step \in 0 .. request.steps
  /\ DOMAIN nc = Files /\ DOMAIN zarr = Files
  /\ phase # "idle" => run >= 1
  /\ phase = "create" => request.fmt = "netcdf4" /\ step = 0
  /\ phase = "write" => request.fmt \in {"netcdf4", "zarr"} /\ step >= 1
  /\ phase = "archive" => request.fmt = "npz"
  /\ phase \in {"archive", "done"} => step = request.steps

Past ==
  /\ \A f \in Files :
       /\ Readable(nc[f]) =>
            \E r \in 1 .. run, len \in Nat : \E n \in 0 .. len : nc[f] = Sheet(r, n, len, f)
       /\ Readable(zarr[f]) => \E r \in 1 .. run, n \in Nat : StackOrCut(zarr[f], r, n, f)
  /\ Readable(npz) => \E r \in 1 .. run, n \in Nat : npz = [k \in 1 .. n |-> <<r, k>>]

Present ==
  /\ \A f \in Files :
       /\ (phase = "create" /\ f < file) => nc[f] = Sheet(run, 0, request.steps, f)
       /\ (phase \in {"run", "write", "done"} /\ request.fmt = "netcdf4") =>
            nc[f] = Sheet(run, Depth(f), request.steps, f)
       /\ (phase \in {"run", "write", "done"} /\ request.fmt = "zarr" /\ Depth(f) >= 1) =>
            zarr[f] = Stack(run, Depth(f), f)
  /\ (phase = "done" /\ request.fmt = "npz") => npz = [k \in 1 .. request.steps |-> <<run, k>>]

(* Until something is written, what was there is still there.               *)
Former ==
  (phase \in {"create", "run", "write"} \/ (phase = "failed" /\ cause # "kill")) =>
    /\ npz = before.npz
    /\ step = 0 => zarr = before.zarr

IInv == Shape /\ Past /\ Present /\ Former

-----------------------------------------------------------------------------
(* The data.                                                                *)

(* The double loop visits the channels in their order.                      *)
LEMMA FileFacts ==
  /\ Levels * Vars \in Nat \ {0} /\ Files = 0 .. Levels * Vars - 1 /\ 0 \in Files
  /\ \A f \in Files : f \in Nat /\ Channel(f) = f
<1>1. Levels * Vars \in Nat \ {0}
  BY SizeAssumption, SMTT(30)
<1>2. ASSUME NEW f \in Nat PROVE Channel(f) = f
  <2>1. f = Vars * (f \div Vars) + (f % Vars) /\ f \div Vars \in Int /\ f % Vars \in Int
    BY SizeAssumption
  <2>2. Vars * (f \div Vars) = (f \div Vars) * Vars
    BY <2>1, SizeAssumption
  <2> QED
    BY <2>1, <2>2 DEF Channel
<1> QED
  BY <1>1, <1>2 DEF Files

LEMMA RequestFacts ==
  ASSUME NEW q \in Requests
  PROVE  q.fmt \in {"netcdf4", "zarr", "npz"} /\ q.steps \in Nat
BY RequestAssumption

(* Writing the next step of a sheet, or of a stack.                         *)
LEMMA SheetGrows ==
  ASSUME NEW r, NEW f, NEW len \in Nat, NEW n \in 1 .. len
  PROVE  [Sheet(r, n - 1, len, f) EXCEPT ![n] = <<r, n, f>>] = Sheet(r, n, len, f)
<1> DEFINE s == Sheet(r, n - 1, len, f)
           e == <<r, n, f>>
<1>1. [s EXCEPT ![n] = e] = [k \in 1 .. len |-> IF k = n THEN e ELSE s[k]]
  BY DEF Sheet
<1>2. ASSUME NEW k \in 1 .. len
      PROVE  (IF k = n THEN e ELSE s[k]) = IF k <= n THEN <<r, k, f>> ELSE Fill
  <2>1. s[k] = IF k <= n - 1 THEN <<r, k, f>> ELSE Fill
    BY DEF Sheet
  <2>2. k # n => (k <= n) = (k <= n - 1)
    OBVIOUS
  <2> HIDE DEF s
  <2>3. CASE k = n
    BY <2>3
  <2>4. CASE k # n
    BY <2>1, <2>2, <2>4
  <2> QED
    BY <2>3, <2>4
<1> HIDE DEF s, e
<1>3. [s EXCEPT ![n] = e] = [k \in 1 .. len |-> IF k <= n THEN <<r, k, f>> ELSE Fill]
  BY <1>1, <1>2, Zenon
<1> QED
  BY <1>3 DEF Sheet, s, e

LEMMA StackFacts ==
  ASSUME NEW r, NEW f, NEW n \in Nat
  PROVE  /\ Stack(r, n, f) \in Seq({r} \X (1 .. n) \X {f}) /\ Len(Stack(r, n, f)) = n
         /\ \A k \in 1 .. n : Stack(r, n, f)[k] = <<r, k, f>>
         /\ Append(Stack(r, n, f), <<r, n + 1, f>>) = Stack(r, n + 1, f)
         /\ <<>> = Stack(r, 0, f)
<1> DEFINE s == Stack(r, n, f)
<1>1. s \in Seq({r} \X (1 .. n) \X {f}) /\ Len(s) = n
  BY DEF Stack
<1>2. Append(s, <<r, n + 1, f>>) = Stack(r, n + 1, f)
  <2> DEFINE t == Append(s, <<r, n + 1, f>>)
  <2>1. t = [k \in 1 .. n + 1 |-> IF k = n + 1 THEN <<r, n + 1, f>> ELSE s[k]]
    BY <1>1
  <2>2. \A k \in 1 .. n : s[k] = <<r, k, f>>
    BY DEF Stack
  <2>3. \A k \in 1 .. n + 1 : k = n + 1 \/ k \in 1 .. n
    OBVIOUS
  <2> HIDE DEF s, t
  <2>4. \A k \in 1 .. n + 1 : (IF k = n + 1 THEN <<r, n + 1, f>> ELSE s[k]) = <<r, k, f>>
    BY <2>2, <2>3, Zenon
  <2>5. t = [k \in 1 .. n + 1 |-> <<r, k, f>>]
    BY <2>1, <2>4, Zenon
  <2> QED
    BY <2>5 DEF Stack, t
<1>3. <<>> = Stack(r, 0, f)
  BY DEF Stack
<1>4. \A k \in 1 .. n : s[k] = <<r, k, f>>
  BY DEF Stack
<1> QED
  BY <1>1, <1>2, <1>3, <1>4

(* What can be read of a store: n steps, and perhaps one more cut short.    *)
Opens(x, r, n, f) ==
  /\ Len(x) \in Nat /\ n <= Len(x) /\ Len(x) <= n + 1
  /\ \A k \in 1 .. n : x[k] = <<r, k, f>>
  /\ \A k \in n + 1 .. Len(x) : x[k] = Fill

LEMMA CutFacts ==
  ASSUME NEW x, NEW r, NEW f, NEW n \in Nat, StackOrCut(x, r, n, f)
  PROVE  /\ Opens(x, r, n, f)
         /\ x \in Seq(({r} \X (1 .. n) \X {f}) \cup {Fill})
<1> DEFINE s == Stack(r, n, f)
           S == {r} \X (1 .. n) \X {f}
<1>1. s \in Seq(S) /\ Len(s) = n /\ \A k \in 1 .. n : s[k] = <<r, k, f>>
  BY StackFacts
<1> HIDE DEF s, S
<1>2. s \in Seq(S \cup {Fill})
  BY <1>1
<1>3. CASE x = s
  BY <1>1, <1>2, <1>3 DEF S, Opens
<1>4. CASE x = Append(s, Fill)
  <2>1. Len(x) = n + 1 /\ x[n + 1] = Fill /\ \A k \in 1 .. n : x[k] = s[k]
    BY <1>1, <1>4
  <2>2. x \in Seq(S \cup {Fill})
    BY <1>2, <1>4
  <2> QED
    BY <1>1, <2>1, <2>2 DEF S, Opens
<1> QED
  BY <1>3, <1>4 DEF StackOrCut, s

LEMMA SheetLength ==
  ASSUME NEW r, NEW f, NEW len \in Nat, NEW n
  PROVE  Len(Sheet(r, n, len, f)) = len
BY DEF Sheet

-----------------------------------------------------------------------------
(* How the invariant is kept.                                               *)

LEMMA InitInv == Init => IInv
<1> SUFFICES ASSUME Init PROVE IInv
  OBVIOUS
<1> USE DEF Init
<1>1. Shape
  BY FileFacts, RequestFacts, BoundAssumption DEF Shape
<1>2. Past
  BY DEF Past, Readable
<1>3. Present /\ Former
  BY DEF Present, Former
<1> QED
  BY <1>1, <1>2, <1>3 DEF IInv

(* What was of one run stays so as long as nothing is written.              *)
LEMMA PastStays ==
  ASSUME Past, run \in Nat, run' \in Nat, run <= run', UNCHANGED <<nc, zarr, npz>>
  PROVE  Past'
<1>1. \A r \in 1 .. run : r \in 1 .. run'
  OBVIOUS
<1>2. ASSUME NEW f \in Files, Readable(nc[f])
      PROVE  \E r \in 1 .. run', len \in Nat : \E n \in 0 .. len : nc[f] = Sheet(r, n, len, f)
  BY <1>1, <1>2 DEF Past
<1>3. ASSUME NEW f \in Files, Readable(zarr[f])
      PROVE  \E r \in 1 .. run', n \in Nat : StackOrCut(zarr[f], r, n, f)
  BY <1>1, <1>3 DEF Past
<1>4. Readable(npz) => \E r \in 1 .. run', n \in Nat : npz = [k \in 1 .. n |-> <<r, k>>]
  BY <1>1 DEF Past
<1> QED
  BY <1>2, <1>3, <1>4 DEF Past

LEMMA BeginKeeps == ASSUME IInv, NEW q \in Requests, Begin(q) PROVE IInv'
<1>1. /\ run' = run + 1 /\ run' \in 1 .. MaxRuns /\ request' = q /\ step' = 0 /\ file' = 0
      /\ cause' = "none" /\ before' = [zarr |-> zarr, npz |-> npz]
      /\ zarr' = zarr /\ nc' = nc /\ npz' = npz
      /\ phase' \in {"failed", "create", "run"}
      /\ phase' = "create" => q.fmt = "netcdf4"
      /\ phase' = "run" => q.fmt # "netcdf4"
  BY BoundAssumption, RequestFacts DEF Begin, StoresAtStart, IInv, Shape
<1>2. q.steps \in Nat /\ q.fmt \in {"netcdf4", "zarr", "npz"} /\ run \in Nat
  BY RequestFacts, BoundAssumption DEF IInv, Shape
<1>3. Shape'
  BY <1>1, <1>2, FileFacts, BoundAssumption DEF IInv, Shape
<1>4. Past'
  BY <1>1, <1>2, PastStays DEF IInv
<1>5. Present'
  BY <1>1, <1>2, FileFacts DEF Present, Depth
<1>6. Former'
  BY <1>1 DEF Former
<1> QED
  BY <1>3, <1>4, <1>5, <1>6 DEF IInv

(* What is in reach everywhere.                                             *)
LEMMA Facts ==
  ASSUME IInv
  PROVE  /\ Shape /\ Past /\ Present /\ Former
         /\ run \in Nat /\ step \in Nat /\ request.steps \in Nat /\ file \in Files
         /\ request.fmt \in {"netcdf4", "zarr", "npz"}
         /\ Levels * Vars \in Nat \ {0} /\ Files = 0 .. Levels * Vars - 1
         /\ \A f \in Files : f \in Nat /\ Channel(f) = f
BY FileFacts, RequestFacts, BoundAssumption DEF IInv, Shape

LEMMA CreateKeeps == ASSUME IInv, CreateFile PROVE IInv'
<1>1. /\ phase = "create" /\ nc' = [nc EXCEPT ![file] = Sheet(run, 0, request.steps, file)]
      /\ UNCHANGED <<request, run, step, zarr, npz, before, cause>>
  <2>1. Blank(file) = Sheet(run, 0, request.steps, file)
    <3>1. \A k \in 1 .. request.steps : ~(k <= 0)
      BY Facts
    <3> QED
      BY <3>1, Zenon DEF Blank, Sheet
  <2> QED
    BY <2>1 DEF CreateFile
<1>2. \/ file = Levels * Vars - 1 /\ phase' = "run" /\ file' = 0
      \/ file # Levels * Vars - 1 /\ phase' = "create" /\ file' = file + 1
  BY <1>1 DEF CreateFile, LastFile
<1>3. step = 0 /\ request.fmt = "netcdf4" /\ run >= 1 /\ DOMAIN nc = Files
  BY <1>1, Facts DEF Shape
<1>4. Shape'
  BY <1>1, <1>2, <1>3, Facts DEF Shape
<1>5. /\ nc'[file] = Sheet(run, 0, request.steps, file)
      /\ \A f \in Files : f # file => nc'[f] = nc[f]
  BY <1>1, <1>3, Facts
<1>6. Past'
  <2>1. ASSUME NEW f \in Files, Readable(nc'[f])
        PROVE  \E r \in 1 .. run, len \in Nat : \E n \in 0 .. len : nc'[f] = Sheet(r, n, len, f)
    <3>1. CASE f = file
      <4>1. run \in 1 .. run /\ request.steps \in Nat /\ 0 \in 0 .. request.steps
        BY <1>3, Facts
      <4> QED
        BY <1>5, <3>1, <4>1
    <3>2. CASE f # file
      BY <1>5, <2>1, <3>2, Facts DEF Past
    <3> QED
      BY <3>1, <3>2
  <2> QED
    BY <1>1, <2>1, Facts DEF Past
<1>7. Present'
  <2>1. ASSUME NEW f \in Files, f < file' \/ phase' = "run"
        PROVE  nc'[f] = Sheet(run, 0, request.steps, f)
    <3>1. f = file \/ f < file
      BY <1>2, <2>1, Facts
    <3> QED
      BY <1>1, <1>5, <3>1, Facts DEF Present
  <2> QED
    BY <1>1, <1>2, <1>3, <2>1 DEF Present, Depth
<1>8. Former'
  BY <1>1, <1>2, Facts DEF Former
<1> QED
  BY <1>4, <1>6, <1>7, <1>8 DEF IInv

LEMMA PredictKeeps == ASSUME IInv, Predict \/ PredictFails PROVE IInv'
<1>1. /\ phase = "run" /\ step < request.steps
      /\ UNCHANGED <<request, run, nc, zarr, npz, before>>
  BY DEF Predict, PredictFails
<1>2. Past'
  BY <1>1, PastStays, Facts
<1>3. \/ phase' = "failed" /\ step' = step /\ file' = file
      \/ /\ step' = step + 1 /\ file' = 0
         /\ \/ phase' = "write" /\ request.fmt \in {"netcdf4", "zarr"}
            \/ phase' = "run" /\ request.fmt = "npz"
  BY Facts DEF Predict, PredictFails
<1>4. Shape'
  BY <1>1, <1>3, Facts DEF Shape
<1>5. Present'
  <2>1. \A f \in Files : f >= 0
    BY FileFacts
  <2>2. CASE phase' = "write"
    <3>1. \A f \in Files : Depth(f) = step /\ Depth(f)' = step
      BY <1>1, <1>3, <2>1, <2>2, Facts DEF Depth
    <3> QED
      BY <1>1, <2>2, <3>1, Facts DEF Present
  <2>3. CASE phase' # "write"
    BY <1>1, <1>3, <2>3 DEF Present
  <2> QED
    BY <2>2, <2>3
<1>6. Former'
  BY <1>1, <1>3, Facts DEF Former
<1> QED
  BY <1>2, <1>4, <1>5, <1>6 DEF IInv

(* The step of a file is written.                                           *)
LEMMA PositionFacts ==
  ASSUME IInv, phase = "write", NextFile
  PROVE  /\ \/ file = Levels * Vars - 1 /\ phase' = "run" /\ file' = file
            \/ file # Levels * Vars - 1 /\ phase' = "write" /\ file' = file + 1
         /\ step \in 1 .. request.steps /\ run \in 1 .. run
         /\ Depth(file) = step - 1 /\ Slice(file) = <<run, step, file>>
<1>1. step >= 1 /\ run >= 1 /\ step \in 0 .. request.steps
  BY Facts DEF Shape
<1>2. Depth(file) = step - 1
  BY Facts DEF Depth
<1>3. Slice(file) = <<run, step, file>>
  BY Facts DEF Slice
<1> QED
  BY <1>1, <1>2, <1>3, Facts DEF NextFile, LastFile

LEMMA DepthGrows ==
  ASSUME IInv, phase = "write", NextFile, step' = step
  PROVE  \A f \in Files : Depth(f)' = IF f = file THEN step ELSE Depth(f)
<1>1. CASE file = Levels * Vars - 1
  <2>1. phase' = "run" /\ \A f \in Files : f # file => ~(f >= file)
    BY <1>1, PositionFacts, FileFacts, Facts
  <2> QED
    BY <2>1 DEF Depth
<1>2. CASE file # Levels * Vars - 1
  <2>1. phase' = "write" /\ file' = file + 1
    BY <1>2, PositionFacts
  <2>2. \A f \in Files : (f >= file + 1) = (f >= file /\ f # file)
    BY FileFacts, Facts
  <2> QED
    BY <2>1, <2>2 DEF Depth
<1> QED
  BY <1>1, <1>2

LEMMA NetCDFKeeps == ASSUME IInv, WriteNetCDF PROVE IInv'
<1>1. /\ phase = "write" /\ request.fmt = "netcdf4" /\ NextFile
      /\ nc' = [nc EXCEPT ![file][step] = Slice(file)]
      /\ UNCHANGED <<request, run, step, zarr, npz, before>>
  BY DEF WriteNetCDF
<1>2. /\ \/ file = Levels * Vars - 1 /\ phase' = "run" /\ file' = file
         \/ file # Levels * Vars - 1 /\ phase' = "write" /\ file' = file + 1
      /\ step \in 1 .. request.steps /\ run \in 1 .. run
      /\ Depth(file) = step - 1 /\ Slice(file) = <<run, step, file>>
  BY <1>1, PositionFacts
<1>3. \A f \in Files : Depth(f)' = IF f = file THEN step ELSE Depth(f)
  BY <1>1, DepthGrows
<1>4. nc[file] = Sheet(run, step - 1, request.steps, file)
  BY <1>1, <1>2, Facts DEF Present
<1>5. /\ nc'[file] = Sheet(run, step, request.steps, file)
      /\ \A f \in Files : f # file => nc'[f] = nc[f]
      /\ DOMAIN nc' = Files
  <2>1. nc' = [nc EXCEPT ![file] = [nc[file] EXCEPT ![step] = <<run, step, file>>]]
    BY <1>1, <1>2
  <2>2. [Sheet(run, step - 1, request.steps, file) EXCEPT ![step] = <<run, step, file>>]
          = Sheet(run, step, request.steps, file)
    BY <1>2, SheetGrows, Facts
  <2>3. DOMAIN nc = Files /\ file \in Files
    BY Facts DEF Shape
  <2> QED
    BY <1>4, <2>1, <2>2, <2>3
<1>6. Shape'
  BY <1>1, <1>2, <1>5, Facts DEF Shape
<1>7. Past'
  <2>1. ASSUME NEW f \in Files, Readable(nc'[f])
        PROVE  \E r \in 1 .. run, len \in Nat : \E n \in 0 .. len : nc'[f] = Sheet(r, n, len, f)
    <3>1. CASE f = file
      <4>1. request.steps \in Nat /\ step \in 0 .. request.steps
        BY <1>2, Facts
      <4> QED
        BY <1>2, <1>5, <3>1, <4>1
    <3>2. CASE f # file
      BY <1>5, <2>1, <3>2, Facts DEF Past
    <3> QED
      BY <3>1, <3>2
  <2> QED
    BY <1>1, <2>1, Facts DEF Past
<1>8. Present'
  <2>1. ASSUME NEW f \in Files PROVE nc'[f] = Sheet(run, Depth(f)', request.steps, f)
    <3>1. CASE f = file
      BY <1>3, <1>5, <3>1
    <3>2. CASE f # file
      BY <1>1, <1>3, <1>5, <3>2, Facts DEF Present
    <3> QED
      BY <3>1, <3>2
  <2> QED
    BY <1>1, <1>2, <2>1 DEF Present
<1>9. Former'
  BY <1>1, <1>2, Facts DEF Former
<1> QED
  BY <1>6, <1>7, <1>8, <1>9 DEF IInv

(* What the store holds before the step at hand is added.                   *)
LEMMA BaseFacts ==
  ASSUME IInv, phase = "write", request.fmt = "zarr"
  PROVE  /\ step - 1 \in Nat /\ run \in 1 .. run
         /\ Base(file) = Stack(run, step - 1, file) /\ Written(file) = Stack(run, step, file)
<1>1. step >= 1 /\ run >= 1 /\ Depth(file) = step - 1 /\ Slice(file) = <<run, step, file>>
  BY Facts DEF Shape, Depth, Slice
<1>2. Base(file) = Stack(run, step - 1, file)
  <2>1. CASE step = 1
    BY <2>1, StackFacts, 0 \in Nat DEF Base
  <2>2. CASE step # 1
    BY <1>1, <2>2, Facts DEF Present, Base
  <2> QED
    BY <2>1, <2>2
<1>3. step - 1 \in Nat /\ (step - 1) + 1 = step
  BY <1>1, Facts
<1>4. Append(Stack(run, step - 1, file), <<run, step, file>>) = Stack(run, step, file)
  BY <1>3, StackFacts
<1> QED
  BY <1>1, <1>2, <1>3, <1>4, Facts DEF Written

LEMMA ZarrKeeps == ASSUME IInv, WriteZarr PROVE IInv'
<1>1. /\ phase = "write" /\ request.fmt = "zarr" /\ NextFile
      /\ zarr' = [zarr EXCEPT ![file] = Written(file)]
      /\ UNCHANGED <<request, run, step, nc, npz, before>>
  BY DEF WriteZarr
<1>2. /\ \/ file = Levels * Vars - 1 /\ phase' = "run" /\ file' = file
         \/ file # Levels * Vars - 1 /\ phase' = "write" /\ file' = file + 1
      /\ step \in 1 .. request.steps /\ run \in 1 .. run
      /\ Depth(file) = step - 1 /\ Slice(file) = <<run, step, file>>
  BY <1>1, PositionFacts
<1>3. \A f \in Files : Depth(f)' = IF f = file THEN step ELSE Depth(f)
  BY <1>1, DepthGrows
<1>4. Written(file) = Stack(run, step, file)
  BY <1>1, BaseFacts
<1>5. /\ zarr'[file] = Stack(run, step, file)
      /\ \A f \in Files : f # file => zarr'[f] = zarr[f]
      /\ DOMAIN zarr' = Files
  BY <1>1, <1>4, Facts DEF Shape
<1>6. Shape'
  BY <1>1, <1>2, <1>5, Facts DEF Shape
<1>7. Past'
  <2>1. ASSUME NEW f \in Files, Readable(zarr'[f])
        PROVE  \E r \in 1 .. run, n \in Nat : StackOrCut(zarr'[f], r, n, f)
    <3>1. CASE f = file
      BY <1>2, <1>5, <3>1, Facts DEF StackOrCut
    <3>2. CASE f # file
      BY <1>5, <2>1, <3>2, Facts DEF Past
    <3> QED
      BY <3>1, <3>2
  <2> QED
    BY <1>1, <2>1, Facts DEF Past
<1>8. Present'
  <2>1. ASSUME NEW f \in Files, Depth(f)' >= 1 PROVE zarr'[f] = Stack(run, Depth(f)', f)
    <3>1. CASE f = file
      BY <1>3, <1>5, <3>1
    <3>2. CASE f # file
      BY <1>1, <1>3, <1>5, <2>1, <3>2, Facts DEF Present
    <3> QED
      BY <3>1, <3>2
  <2> QED
    BY <1>1, <1>2, <2>1 DEF Present
<1>9. Former'
  BY <1>1, <1>2, Facts DEF Former
<1> QED
  BY <1>6, <1>7, <1>8, <1>9 DEF IInv

(* The ends: the archive is opened and saved, the stream is closed.         *)
LEMMA EndKeeps == ASSUME IInv, Archive \/ SaveArchive \/ Finish PROVE IInv'
<1>1. /\ step = request.steps /\ UNCHANGED <<request, run, step, file, nc, zarr, before, cause>>
      /\ phase \in {"run", "archive"}
      /\ \/ phase' = "archive" /\ npz' = Torn /\ request.fmt = "npz"
         \/ phase' = "failed" /\ npz' = npz /\ phase = "run"
         \/ /\ phase' = "done" /\ request.fmt = "npz"
            /\ npz' = [k \in 1 .. request.steps |-> <<run, k>>]
         \/ phase' = "done" /\ npz' = npz /\ request.fmt # "npz" /\ phase = "run"
  BY Facts DEF Archive, SaveArchive, Finish, Shape
<1>2. Shape'
  BY <1>1, Facts DEF Shape
<1>3. Past'
  <2>1. Readable(npz') => \E r \in 1 .. run, n \in Nat : npz' = [k \in 1 .. n |-> <<r, k>>]
    <3>1. CASE npz' = [k \in 1 .. request.steps |-> <<run, k>>]
      <4>1. run \in 1 .. run /\ request.steps \in Nat
        BY <1>1, Facts DEF Shape
      <4> QED
        BY <3>1, <4>1
    <3>2. CASE npz' = npz
      BY <3>2, Facts DEF Past
    <3>3. CASE npz' = Torn
      BY <3>3 DEF Readable
    <3> QED
      BY <1>1, <3>1, <3>2, <3>3
  <2> QED
    BY <1>1, <2>1, Facts DEF Past
<1>4. Present'
  <2>1. \A f \in Files : phase = "run" => Depth(f)' = Depth(f) \/ phase' # "done"
    BY <1>1 DEF Depth
  <2> QED
    BY <1>1, <2>1, Facts DEF Present
<1>5. Former'
  BY <1>1, Facts DEF Former
<1> QED
  BY <1>2, <1>3, <1>4, <1>5 DEF IInv

(* What an export that is killed, or a write of which fails, leaves open.   *)
LEMMA CutStores ==
  ASSUME IInv, Kill
  PROVE  /\ DOMAIN zarr' = Files
         /\ \A f \in Files : Readable(zarr'[f]) =>
              \E r \in 1 .. run, n \in Nat : StackOrCut(zarr'[f], r, n, f)
<1>1. CASE zarr' = zarr
  BY <1>1, Facts DEF Shape, Past
<1>2. CASE zarr' # zarr
  <2>1. phase = "write" /\ request.fmt = "zarr"
    BY <1>2 DEF Kill
  <2>2. PICK x \in Cut(file) : zarr' = [zarr EXCEPT ![file] = x]
    BY <2>1 DEF Kill
  <2>3. /\ DOMAIN zarr' = Files /\ zarr'[file] = x
        /\ \A f \in Files : f # file => zarr'[f] = zarr[f]
    BY <2>2, Facts DEF Shape
  <2>4. Readable(x) => \E r \in 1 .. run, n \in Nat : StackOrCut(x, r, n, file)
    <3>1. /\ step - 1 \in Nat /\ step \in Nat /\ run \in 1 .. run
          /\ Base(file) = Stack(run, step - 1, file) /\ Written(file) = Stack(run, step, file)
      BY <2>1, BaseFacts, Facts
    <3>2. CASE x = zarr[file] \/ x = Torn
      BY <3>2, Facts DEF Past, Readable
    <3>3. CASE x = Base(file) \/ x = Append(Base(file), Fill)
      <4>1. StackOrCut(x, run, step - 1, file)
        BY <3>1, <3>3 DEF StackOrCut
      <4> QED
        BY <3>1, <4>1
    <3>4. CASE x = Written(file)
      <4>1. StackOrCut(x, run, step, file)
        BY <3>1, <3>4 DEF StackOrCut
      <4> QED
        BY <3>1, <4>1
    <3> QED
      BY <3>2, <3>3, <3>4 DEF Cut
  <2>5. ASSUME NEW f \in Files, Readable(zarr'[f])
        PROVE  \E r \in 1 .. run, n \in Nat : StackOrCut(zarr'[f], r, n, f)
    <3>1. CASE f = file
      BY <2>3, <2>4, <2>5, <3>1
    <3>2. CASE f # file
      BY <2>3, <2>5, <3>2, Facts DEF Past
    <3> QED
      BY <3>1, <3>2
  <2> QED
    BY <2>3, <2>5
<1> QED
  BY <1>1, <1>2

LEMMA KillKeeps == ASSUME IInv, Kill PROVE IInv'
<1>1. /\ phase' = "failed" /\ cause' = "kill" /\ phase # "idle"
      /\ UNCHANGED <<request, run, step, file, npz, before>>
  BY DEF Kill
<1>2. DOMAIN nc' = Files /\ \A f \in Files : nc'[f] = nc[f] \/ nc'[f] = Torn
  <2>1. DOMAIN nc = Files
    BY Facts DEF Shape
  <2>2. nc' = nc \/ nc' = Unclosed \/ nc' = Closed
    BY DEF Kill
  <2> QED
    BY <2>1, <2>2 DEF Unclosed, Closed
<1>3. Shape'
  BY <1>1, <1>2, CutStores, Facts DEF Shape
<1>4. Past'
  <2>1. \A f \in Files : Readable(nc'[f]) => Readable(nc[f]) /\ nc'[f] = nc[f]
    BY <1>2 DEF Readable
  <2>2. ASSUME NEW f \in Files, Readable(nc'[f])
        PROVE  \E r \in 1 .. run, len \in Nat : \E n \in 0 .. len : nc'[f] = Sheet(r, n, len, f)
    BY <2>1, <2>2, Facts DEF Past
  <2>3. ASSUME NEW f \in Files, Readable(zarr'[f])
        PROVE  \E r \in 1 .. run, n \in Nat : StackOrCut(zarr'[f], r, n, f)
    BY <2>3, CutStores
  <2>4. Readable(npz) => \E r \in 1 .. run, n \in Nat : npz = [k \in 1 .. n |-> <<r, k>>]
    BY Facts DEF Past
  <2> QED
    BY <1>1, <2>2, <2>3, <2>4 DEF Past, Readable
<1>5. Present' /\ Former'
  BY <1>1 DEF Present, Former
<1> QED
  BY <1>3, <1>4, <1>5 DEF IInv

-----------------------------------------------------------------------------
(* The theorems.                                                            *)

LEMMA NextKeeps == ASSUME IInv, Next PROVE IInv'
BY BeginKeeps, CreateKeeps, PredictKeeps, NetCDFKeeps, ZarrKeeps, EndKeeps, KillKeeps DEF Next

(* The invariant holds in every reachable state.                            *)
THEOREM Inductive == Spec => []IInv
<1>1. IInv /\ UNCHANGED vars => IInv'
  BY DEF vars, IInv, Shape, Past, Present, Former, Depth
<1>2. IInv /\ [Next]_vars => IInv'
  BY <1>1, NextKeeps
<1> QED
  BY InitInv, <1>2, PTL DEF Spec

(* What a file that can be opened holds are slices of runs that have begun, *)
(* of its own channel, and fill values.                                     *)
THEOREM TypeCorrect == Spec => []TypeOK
<1>1. IInv => TypeOK
  <2> SUFFICES ASSUME IInv PROVE TypeOK
    OBVIOUS
  <2> DEFINE S(f) == ((1 .. run) \X (Nat \ {0}) \X {f}) \cup {Fill}
  <2>1. ASSUME NEW f \in Files, Readable(nc[f]) PROVE nc[f] \in Seq(S(f))
    <3>1. PICK r \in 1 .. run, len \in Nat : \E n \in 0 .. len : nc[f] = Sheet(r, n, len, f)
      BY <2>1, Facts DEF Past
    <3>2. PICK n \in 0 .. len : nc[f] = Sheet(r, n, len, f)
      BY <3>1
    <3>3. \A k \in 1 .. len : (IF k <= n THEN <<r, k, f>> ELSE Fill) \in S(f)
      OBVIOUS
    <3> HIDE DEF S
    <3> QED
      BY <3>2, <3>3 DEF Sheet
  <2>2. ASSUME NEW f \in Files, Readable(zarr[f]) PROVE zarr[f] \in Seq(S(f))
    <3>1. PICK r \in 1 .. run, n \in Nat : StackOrCut(zarr[f], r, n, f)
      BY <2>2, Facts DEF Past
    <3> DEFINE T == ({r} \X (1 .. n) \X {f}) \cup {Fill}
    <3>2. zarr[f] \in Seq(T)
      BY <3>1, CutFacts
    <3>3. T \subseteq S(f)
      OBVIOUS
    <3> HIDE DEF S, T
    <3> QED
      BY <3>2, <3>3
  <2>3. phase \in {"create", "write"} => request.fmt # "npz"
    BY Facts DEF Shape
  <2> HIDE DEF S
  <2>4. \A f \in Files : \A x \in {nc[f], zarr[f]} : Readable(x) => x \in Seq(S(f))
    BY <2>1, <2>2
  <2> USE DEF S
  <2> QED
    BY <2>3, <2>4, Facts DEF TypeOK, Shape
<1> QED
  BY <1>1, Inductive, PTL

(* When the export returns, every file holds every step of this run, in     *)
(* order, of its own level and variable, and nothing an earlier export left *)
(* (model.py:760-776, 778-803).                                             *)
THEOREM CompleteWhenDone == Spec => []DoneIsComplete
<1>1. IInv => DoneIsComplete
  <2> SUFFICES ASSUME IInv, phase = "done", request.steps > 0
               PROVE  CASE request.fmt = "netcdf4" ->
                             \A f \in Files : nc[f] = [k \in 1 .. request.steps |-> <<run, k, f>>]
                        [] request.fmt = "zarr" ->
                             \A f \in Files : zarr[f] = [k \in 1 .. request.steps |-> <<run, k, f>>]
                        [] OTHER -> npz = [k \in 1 .. request.steps |-> <<run, k>>]
    BY DEF DoneIsComplete
  <2>1. step = request.steps /\ request.steps \in Nat
    BY Facts DEF Shape
  <2>2. \A f \in Files : Depth(f) = request.steps
    BY <2>1 DEF Depth
  <2>3. \A f \in Files : Sheet(run, request.steps, request.steps, f)
                           = [k \in 1 .. request.steps |-> <<run, k, f>>]
    BY <2>1 DEF Sheet
  <2>4. CASE request.fmt = "netcdf4"
    BY <2>2, <2>3, <2>4, Facts DEF Present
  <2>5. CASE request.fmt = "zarr"
    BY <2>1, <2>2, <2>5, Facts DEF Present, Stack
  <2>6. CASE request.fmt = "npz"
    BY <2>6, Facts DEF Present
  <2> QED
    BY <2>4, <2>5, <2>6, Facts
<1> QED
  BY <1>1, Inductive, PTL

(* Whatever raised or was killed before, a file that can be opened is the   *)
(* first steps of one run without a hole, then fill values: in a store of   *)
(* one step at most (model.py:760-803, 884-911).                            *)
THEOREM OneRunPerFile == Spec => []ReadableIsOneRun
<1>1. IInv => ReadableIsOneRun
  <2> SUFFICES ASSUME IInv PROVE ReadableIsOneRun
    OBVIOUS
  <2>1. ASSUME NEW f \in Files, Readable(zarr[f])
        PROVE  \E n \in 0 .. Len(zarr[f]) :
                 /\ Len(zarr[f]) <= n + 1
                 /\ \E r \in 1 .. run : \A k \in 1 .. n : zarr[f][k] = <<r, k, f>>
                 /\ \A k \in n + 1 .. Len(zarr[f]) : zarr[f][k] = Fill
    <3>1. PICK r \in 1 .. run, n \in Nat : StackOrCut(zarr[f], r, n, f)
      BY <2>1, Facts DEF Past
    <3>2. Opens(zarr[f], r, n, f)
      BY <3>1, CutFacts
    <3>3. n \in 0 .. Len(zarr[f])
      BY <3>2 DEF Opens
    <3> QED
      BY <3>2, <3>3 DEF Opens
  <2>2. ASSUME NEW f \in Files, Readable(nc[f])
        PROVE  \E n \in 0 .. Len(nc[f]) :
                 /\ \E r \in 1 .. run : \A k \in 1 .. n : nc[f][k] = <<r, k, f>>
                 /\ \A k \in n + 1 .. Len(nc[f]) : nc[f][k] = Fill
    <3>1. PICK r \in 1 .. run, size \in Nat : \E n \in 0 .. size : nc[f] = Sheet(r, n, size, f)
      BY <2>2, Facts DEF Past
    <3>2. PICK n \in 0 .. size : nc[f] = Sheet(r, n, size, f)
      BY <3>1
    <3>3. Len(Sheet(r, n, size, f)) = size
      BY SheetLength
    <3>4. /\ \A k \in 1 .. n : Sheet(r, n, size, f)[k] = <<r, k, f>>
          /\ \A k \in n + 1 .. size : Sheet(r, n, size, f)[k] = Fill
      BY DEF Sheet
    <3> QED
      BY <3>2, <3>3, <3>4
  <2>3. Readable(npz) => \E r \in 1 .. run : \A k \in DOMAIN npz : npz[k] = <<r, k>>
    BY Facts DEF Past
  <2> QED
    BY <2>1, <2>2, <2>3 DEF ReadableIsOneRun
<1> QED
  BY <1>1, Inductive, PTL

(* An export that raises leaves the archive alone, and the stores too when  *)
(* it had no step to write (model.py:737-776, 884-911).                     *)
THEOREM FormerKept == Spec => []RaiseKeepsFormer
<1>1. IInv => RaiseKeepsFormer
  BY DEF IInv, Former, RaiseKeepsFormer
<1> QED
  BY <1>1, Inductive, PTL

=============================================================================
