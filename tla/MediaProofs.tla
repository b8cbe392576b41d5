------------------------------ MODULE MediaProofs ------------------------------
(***************************************************************************)
(* Theorems about MediaPipeline, for every number of uploads, every length *)
(* of their outputs and whatever an earlier run left at the two paths.     *)
(***************************************************************************)
EXTENDS MediaPipeline, TLAPS

USE DEF fileVars, history, Kinds, Parts, Inodes, Ended, Steps

-----------------------------------------------------------------------------
(* Types                                                                   *)

\* What an upload needs at its step: the outputs that are open, and the
\* inode that is read.
Placed ==
  \A t \in Uploads :
    /\ pc[t] = "idle" => kind[t] = "video" /\ \A k \in Kinds, p \in Parts : blob[t][k][p] = Nobody
    /\ pc[t] = "open" /\ kind[t] = "audio" => fd[t]["video"] \in Inodes
    /\ pc[t] = "encode" => kind[t] = "video" /\ \A k \in Kinds : fd[t][k] \in Inodes
    /\ pc[t] = "send" => stream[t] \in Inodes

Typed == TypeOK /\ Placed

\* Opening an output leaves an empty file there, and all others as they are.
LEMMA Opened ==
  ASSUME Typed, NEW t \in Uploads, Open(t)
  PROVE  /\ data' \in [Kinds -> [Inodes -> Bytes]]
         /\ Created(t, kind[t]) \in Inodes
         /\ \A k \in Kinds, i \in Inodes, p \in Parts :
              data'[k][i][p] = IF k = kind[t] /\ i = Created(t, kind[t]) THEN Nobody
                               ELSE data[k][i][p]
  <1> DEFINE c == kind[t]
             o == Created(t, c)
  <1>1. c \in Kinds /\ o \in Inodes /\ data \in [Kinds -> [Inodes -> Bytes]]
    BY NamesAssumption DEF Typed, TypeOK, Created
  <1>2. Nothing \in Bytes /\ \A p \in Parts : Nothing[p] = Nobody
    BY DEF Nothing, Bytes
  <1>3. data' = [data EXCEPT ![c] = [data[c] EXCEPT ![o] = Nothing]]
    BY DEF Open, Truncated, Created
  <1> HIDE DEF c, o
  <1>4. data' \in [Kinds -> [Inodes -> Bytes]]
    BY <1>1, <1>2, <1>3
  <1>5. \A k \in Kinds, i \in Inodes :
          data'[k][i] = IF k = c /\ i = o THEN Nothing ELSE data[k][i]
    BY <1>1, <1>3
  <1> QED BY <1>1, <1>2, <1>4, <1>5 DEF c, o

\* ffmpeg writes the next part of both outputs, and nothing else.
LEMMA Encoded ==
  ASSUME Typed, NEW t \in Uploads, Encode(t)
  PROVE  /\ data' \in [Kinds -> [Inodes -> Bytes]]
         /\ pos[t] + 1 \in Parts /\ \A k \in Kinds : fd[t][k] \in Inodes
         /\ \A k \in Kinds, i \in Inodes, p \in Parts :
              data'[k][i][p] = IF i = fd[t][k] /\ p = pos[t] + 1 THEN t ELSE data[k][i][p]
  <1> DEFINE n == pos[t] + 1
  <1>1. /\ n \in Parts /\ data \in [Kinds -> [Inodes -> Bytes]]
        /\ \A k \in Kinds : fd[t][k] \in Inodes
    <2>1. Length[t] \in 1 .. MaxParts /\ MaxParts \in Nat /\ pos[t] \in 0 .. MaxParts
      BY LengthAssumption DEF Typed, TypeOK
    <2>2. pos[t] < Length[t] /\ pc[t] = "encode"
      BY DEF Encode, Goto
    <2>3. n \in Parts
      BY <2>1, <2>2
    <2> QED BY <2>2, <2>3 DEF Typed, TypeOK, Placed
  <1>2. data' = [k \in Kinds |-> [data[k] EXCEPT ![fd[t][k]] = [data[k][fd[t][k]] EXCEPT ![n] = t]]]
    BY DEF Encode
  <1> HIDE DEF n
  <1>3. \A k \in Kinds : data[k] \in [Inodes -> Bytes] /\ data[k][fd[t][k]] \in Bytes
    BY <1>1
  <1>4. \A b \in Bytes : /\ [b EXCEPT ![n] = t] \in Bytes
                         /\ \A p \in Parts : [b EXCEPT ![n] = t][p] = IF p = n THEN t ELSE b[p]
    BY <1>1 DEF Bytes
  <1>5. data' \in [Kinds -> [Inodes -> Bytes]]
    BY <1>1, <1>2, <1>3, <1>4
  <1>6. \A k \in Kinds, i \in Inodes :
          data'[k][i] = IF i = fd[t][k] THEN [data[k][i] EXCEPT ![n] = t] ELSE data[k][i]
    BY <1>1, <1>2, <1>3
  <1>7. \A k \in Kinds, i \in Inodes, p \in Parts :
          data'[k][i][p] = IF i = fd[t][k] /\ p = n THEN t ELSE data[k][i][p]
    <2> TAKE k \in Kinds, i \in Inodes, p \in Parts
    <2>1. [data[k][i] EXCEPT ![n] = t][p] = IF p = n THEN t ELSE data[k][i][p]
      <3>1. data[k][i] \in Bytes
        BY <1>1
      <3> QED BY <1>4, <3>1
    <2>2. CASE i = fd[t][k]
      BY <1>6, <2>1, <2>2
    <2>3. CASE i # fd[t][k]
      BY <1>6, <2>3
    <2> QED BY <2>2, <2>3
  <1> QED BY <1>1, <1>5, <1>7 DEF n

\* The stream sends the next part of what it reads.
LEMMA Sent ==
  ASSUME Typed, NEW t \in Uploads, Send(t)
  PROVE  /\ blob' \in [Uploads -> [Kinds -> Bytes]]
         /\ pos[t] + 1 \in Parts /\ stream[t] \in Inodes /\ kind[t] \in Kinds
         /\ \A u \in Uploads, k \in Kinds, p \in Parts :
              blob'[u][k][p] = IF u = t /\ k = kind[t] /\ p = pos[t] + 1
                               THEN data[k][stream[t]][p] ELSE blob[u][k][p]
  <1> DEFINE n == pos[t] + 1
             c == kind[t]
             b == data[c][stream[t]][n]
  <1>1. /\ c \in Kinds /\ stream[t] \in Inodes /\ data \in [Kinds -> [Inodes -> Bytes]]
        /\ blob \in [Uploads -> [Kinds -> Bytes]] /\ pos[t] \in 0 .. MaxParts
    BY DEF Typed, TypeOK, Placed, Send, Goto
  <1>2. n \in Parts
    BY <1>1, LengthAssumption DEF Send, AtEnd
  <1>3. b \in Inodes \cup {Nobody}
    <2>1. data[c][stream[t]] \in Bytes
      BY <1>1
    <2> QED BY <1>2, <2>1 DEF Bytes
  <1>4. blob' = [blob EXCEPT ![t] = [blob[t] EXCEPT ![c] = [blob[t][c] EXCEPT ![n] = b]]]
    BY DEF Send
  <1> HIDE DEF n, c, b
  <1>b. \A u \in Uploads, k \in Kinds : blob[u][k] \in Bytes
    BY <1>1
  <1>5. \A x \in Bytes : /\ [x EXCEPT ![n] = b] \in Bytes
                         /\ \A p \in Parts : [x EXCEPT ![n] = b][p] = IF p = n THEN b ELSE x[p]
    BY <1>2, <1>3 DEF Bytes
  <1>6. blob[t] \in [Kinds -> Bytes] /\ blob[t][c] \in Bytes
    BY <1>1
  <1>7. blob' \in [Uploads -> [Kinds -> Bytes]]
    BY <1>1, <1>4, <1>5, <1>6
  <1>8. \A u \in Uploads, k \in Kinds :
          blob'[u][k] = IF u = t /\ k = c THEN [blob[u][k] EXCEPT ![n] = b] ELSE blob[u][k]
    BY <1>1, <1>4, <1>6
  <1>9. \A u \in Uploads, k \in Kinds, p \in Parts :
          blob'[u][k][p] = IF u = t /\ k = c /\ p = n THEN b ELSE blob[u][k][p]
    <2> TAKE u \in Uploads, k \in Kinds, p \in Parts
    <2>1. [blob[u][k] EXCEPT ![n] = b][p] = IF p = n THEN b ELSE blob[u][k][p]
      BY <1>b, <1>5
    <2>2. CASE u = t /\ k = c
      BY <1>8, <2>1, <2>2
    <2>3. CASE ~(u = t /\ k = c)
      BY <1>8, <2>3
    <2> QED BY <2>2, <2>3
  <1> QED BY <1>1, <1>2, <1>7, <1>9 DEF n, c, b

LEMMA StepTyped ==
  ASSUME Typed, NEW t \in Uploads, Start(t) \/ Step(t)
  PROVE  Typed'
  <1> USE LengthAssumption, NamesAssumption
  <1> USE DEF Typed, TypeOK, Placed, Goto
  <1>1. CASE Start(t)
    BY <1>1 DEF Start, Active
  <1>2. CASE Open(t)
    <2>1. data' \in [Kinds -> [Inodes -> Bytes]] /\ Created(t, kind[t]) \in Inodes
      BY <1>2, Opened
    <2>2. fd' \in [Uploads -> [Kinds -> Inodes \cup {NoFile}]]
      BY <1>2, <2>1 DEF Open
    <2>3. \A u \in Uploads, k \in Kinds :
            fd'[u][k] = IF u = t /\ k = kind[t] THEN Created(t, kind[t]) ELSE fd[u][k]
      BY <1>2 DEF Open
    <2>4. TypeOK'
      BY <1>2, <2>1, <2>2 DEF Open
    <2>5. Placed'
      BY <1>2, <2>1, <2>3 DEF Open
    <2> QED BY <2>4, <2>5
  <1>3. CASE Encode(t)
    <2>1. data' \in [Kinds -> [Inodes -> Bytes]] /\ pos[t] + 1 \in Parts
      BY <1>3, Encoded
    <2>2. pos' \in [Uploads -> 0 .. MaxParts]
      BY <1>3, <2>1 DEF Encode
    <2> QED BY <1>3, <2>1, <2>2 DEF Encode
  <1>4. CASE EncodeEnd(t) \/ ProcessFails(t)
    <2>1. fd' = [fd EXCEPT ![t] = [k \in Kinds |-> NoFile]]
      BY <1>4 DEF EncodeEnd, ProcessFails
    <2>2. [k \in Kinds |-> NoFile] \in [Kinds -> Inodes \cup {NoFile}]
      OBVIOUS
    <2>3. fd' \in [Uploads -> [Kinds -> Inodes \cup {NoFile}]]
          /\ \A u \in Uploads : u # t => fd'[u] = fd[u]
      BY <2>1, <2>2
    <2>4. TypeOK'
      <3>1. CASE EncodeEnd(t)
        BY <2>3, <3>1 DEF EncodeEnd
      <3>2. CASE ProcessFails(t)
        BY <2>3, <3>2 DEF ProcessFails
      <3> QED BY <1>4, <3>1, <3>2
    <2>5. Placed'
      BY <1>4, <2>3 DEF EncodeEnd, ProcessFails
    <2> QED BY <2>4, <2>5
  <1>5. CASE CreateReadStream(t) \/ NothingToRead(t)
    <2>1. CASE CreateReadStream(t)
      <3>1. path[kind[t]] \in Inodes
        BY <2>1 DEF CreateReadStream
      <3>2. TypeOK'
        BY <2>1, <3>1 DEF CreateReadStream
      <3>3. Placed'
        BY <2>1, <3>1 DEF CreateReadStream
      <3> QED BY <3>2, <3>3
    <2>2. CASE NothingToRead(t)
      BY <2>2 DEF NothingToRead
    <2> QED BY <1>5, <2>1, <2>2
  <1>6. CASE Send(t)
    <2>1. blob' \in [Uploads -> [Kinds -> Bytes]] /\ pos[t] + 1 \in Parts
          /\ \A u \in Uploads : u # t => \A k \in Kinds, p \in Parts : blob'[u][k][p] = blob[u][k][p]
      BY <1>6, Sent
    <2>2. pos' \in [Uploads -> 0 .. MaxParts]
      BY <1>6, <2>1 DEF Send
    <2> QED BY <1>6, <2>1, <2>2 DEF Send
  <1>7. CASE SendEnd(t) \/ SendFails(t)
    <2>1. TypeOK'
      <3>1. CASE SendEnd(t)
        BY <3>1 DEF SendEnd
      <3>2. CASE SendFails(t)
        BY <3>2 DEF SendFails
      <3> QED BY <1>7, <3>1, <3>2
    <2>2. Placed'
      BY <1>7 DEF SendEnd, SendFails
    <2> QED BY <2>1, <2>2
  <1>8. CASE Unlink(t) \/ UnlinkMissing(t)
    <2>1. TypeOK'
      <3>1. CASE Unlink(t)
        BY <3>1 DEF Unlink
      <3>2. CASE UnlinkMissing(t)
        BY <3>2 DEF UnlinkMissing
      <3> QED BY <1>8, <3>1, <3>2
    <2>2. Placed'
      BY <1>8 DEF Unlink, UnlinkMissing
    <2> QED BY <2>1, <2>2
  <1> QED BY <1>1, <1>2, <1>3, <1>4, <1>5, <1>6, <1>7, <1>8 DEF Step

LEMMA NextTyped ==
  ASSUME Typed, [Next]_vars
  PROVE  Typed'
  <1>1. CASE UNCHANGED vars
    BY <1>1 DEF vars, Typed, TypeOK, Placed
  <1> QED BY <1>1, StepTyped DEF Next, Quiescent

\* Every variable keeps its type, and every upload holds the files that its
\* step needs.
THEOREM MediaTyped == Spec => []Typed
  <1>1. Init => Typed
    BY LengthAssumption, NamesAssumption DEF Init, Typed, TypeOK, Placed, Bytes, Nothing
  <1> QED BY <1>1, NextTyped, PTL DEF Spec

-----------------------------------------------------------------------------
(* Whose bytes get into a blob                                             *)

\* Upload t has opened output k and is not over.
HasOpened(t, k) ==
  \/ pc[t] \in {"encode", "read", "send", "unlink"}
  \/ pc[t] = "open" /\ kind[t] = "audio" /\ k = "video"

\* The bytes that may reach the blobs of t.
Met(t, b) == b \in {t, Nobody} \cup met[t]

\* Opening truncates, so from then on the file at the path holds bytes of
\* uploads that t has met: what makes MixesOverlappingOnly inductive.
MixInv ==
  /\ \A t, u \in Active : t # u => u \in met[t]
  /\ \A t \in Uploads, k \in Kinds :
       HasOpened(t, k) /\ path[k] # NoFile => \A p \in Parts : Met(t, data[k][path[k]][p])
  /\ \A t \in Uploads : pc[t] = "send" => \A p \in Parts : Met(t, data[kind[t]][stream[t]][p])
  /\ \A t \in Uploads, k \in Kinds, p \in Parts : Met(t, blob[t][k][p])

\* The actors of a step: who they have met only grows while they are active.
LEMMA MetStep ==
  ASSUME Typed, MixInv, NEW a \in Uploads, Start(a) \/ Step(a)
  PROVE  /\ \A t, u \in Active' : t # u => u \in met'[t]
         /\ \A t \in Uploads : pc[t] # "idle" => met[t] \subseteq met'[t]
         /\ ~Start(a) => met' = met
  <1> USE DEF Goto, Typed, TypeOK, Active, MixInv
  <1>1. CASE Start(a)
    BY <1>1 DEF Start
  <1>2. CASE Step(a)
    <2>1. met' = met /\ \A t \in Uploads : t # a => pc'[t] = pc[t]
      BY <1>2 DEF Step, Open, Encode, EncodeEnd, ProcessFails, CreateReadStream, NothingToRead,
                  Send, SendEnd, SendFails, Unlink, UnlinkMissing
    <2>2. a \in Active
      BY <1>2 DEF Step, Open, Encode, EncodeEnd, ProcessFails, CreateReadStream, NothingToRead,
                  Send, SendEnd, SendFails, Unlink, UnlinkMissing
    <2> QED BY <2>1, <2>2
  <1> QED BY <1>1, <1>2

\* The steps that write no file.
LEMMA MixQuiet ==
  ASSUME Typed, MixInv, NEW a \in Uploads, Start(a) \/ Step(a), ~Open(a), ~Encode(a), ~Send(a)
  PROVE  MixInv'
  <1> USE DEF Goto, Typed, TypeOK, Placed
  <1>1. /\ data' = data /\ blob' = blob
        /\ \A k \in Kinds : path'[k] \in {path[k], NoFile}
        /\ \A t \in Uploads : t # a => pc'[t] = pc[t] /\ kind'[t] = kind[t] /\ stream'[t] = stream[t]
    BY DEF Start, Step, EncodeEnd, ProcessFails, CreateReadStream, NothingToRead, SendEnd, SendFails,
           Unlink, UnlinkMissing
  <1>2. /\ \A k \in Kinds : HasOpened(a, k)' => HasOpened(a, k)
        /\ pc'[a] = "send" => /\ path[kind[a]] # NoFile /\ kind'[a] = kind[a]
                              /\ stream'[a] = path[kind[a]] /\ HasOpened(a, kind[a])
    BY DEF HasOpened, Start, Step, EncodeEnd, ProcessFails, CreateReadStream, NothingToRead,
           SendEnd, SendFails, Unlink, UnlinkMissing
  <1>3. \A t \in Uploads : \A b : (pc[t] # "idle" \/ b = Nobody) /\ Met(t, b) => Met(t, b)'
    BY MetStep DEF Met
  <1>4. ASSUME NEW t \in Uploads, NEW k \in Kinds, HasOpened(t, k)', path'[k] # NoFile, NEW p \in Parts
        PROVE  Met(t, data[k][path[k]][p])' /\ path'[k] = path[k]
    <2>1. HasOpened(t, k) /\ path'[k] = path[k]
      BY <1>1, <1>2, <1>4 DEF HasOpened
    <2>2. Met(t, data[k][path[k]][p]) /\ pc[t] # "idle"
      BY <1>4, <2>1 DEF MixInv, HasOpened
    <2> QED BY <1>1, <1>3, <2>1, <2>2
  <1>5. ASSUME NEW t \in Uploads, pc'[t] = "send", NEW p \in Parts
        PROVE  Met(t, data[kind[t]][stream[t]][p])'
    <2>1. CASE t = a
      <3>1. Met(t, data[kind[t]][path[kind[t]]][p]) /\ pc[t] # "idle"
        BY <1>2, <1>5, <2>1 DEF MixInv, HasOpened
      <3> QED BY <1>1, <1>2, <1>3, <1>5, <2>1, <3>1
    <2>2. CASE t # a
      <3>1. Met(t, data[kind[t]][stream[t]][p]) /\ pc[t] # "idle"
        BY <1>1, <1>5, <2>2 DEF MixInv
      <3> QED BY <1>1, <1>3, <2>2, <3>1
    <2> QED BY <2>1, <2>2
  <1>6. ASSUME NEW t \in Uploads, NEW k \in Kinds, NEW p \in Parts
        PROVE  Met(t, blob[t][k][p])'
    <2>1. Met(t, blob[t][k][p]) /\ (pc[t] # "idle" \/ blob[t][k][p] = Nobody)
      BY DEF MixInv
    <2> QED BY <1>1, <1>3, <2>1
  <1> QED BY <1>4, <1>5, <1>6, MetStep DEF MixInv

LEMMA MixWrites ==
  ASSUME Typed, MixInv, NEW a \in Uploads, Open(a) \/ Encode(a)
  PROVE  MixInv'
  <1> USE DEF Goto, Typed, TypeOK, Placed
  <1>0. Step(a) /\ ~Start(a) /\ met' = met
    BY MetStep DEF Step, Start, Open, Encode
  <1>1. /\ blob' = blob /\ stream' = stream
        /\ \A t \in Uploads : t # a => pc'[t] = pc[t] /\ kind'[t] = kind[t]
        /\ pc[a] \in {"open", "encode"} /\ pc'[a] \in {"open", "encode"}
    BY DEF Open, Encode
  <1>2. \A k \in Kinds : path[k] # NoFile => path[k] \in Inodes
    OBVIOUS
  <1>3. \A t \in Uploads, k \in Kinds, i \in Inodes, p \in Parts :
          pc[t] \in Steps /\ Met(t, data[k][i][p]) => Met(t, data'[k][i][p])
    <2>1. CASE Open(a)
      BY <2>1, Opened DEF Met
    <2>2. CASE Encode(a)
      <3>1. \A t \in Uploads : pc[t] \in Steps => Met(t, a)
        BY <1>1 DEF Met, MixInv, Active
      <3>2. \A k \in Kinds, i \in Inodes, p \in Parts : data'[k][i][p] \in {a, data[k][i][p]}
        BY <2>2, Encoded
      <3> TAKE t \in Uploads, k \in Kinds, i \in Inodes, p \in Parts
      <3> HAVE pc[t] \in Steps /\ Met(t, data[k][i][p])
      <3>3. CASE data'[k][i][p] = a
        BY <3>1, <3>3
      <3>4. CASE data'[k][i][p] = data[k][i][p]
        BY <3>4
      <3> QED BY <3>2, <3>3, <3>4
    <2> QED BY <2>1, <2>2
  <1>4. ASSUME NEW t \in Uploads, NEW k \in Kinds, HasOpened(t, k)', path'[k] # NoFile, NEW p \in Parts
        PROVE  Met(t, data[k][path[k]][p])'
    <2>1. CASE Open(a) /\ k = kind[a]
      <3>1. path'[k] = Created(a, k)
        BY <2>1 DEF Open
      <3>2. data'[k][Created(a, k)][p] = Nobody
        BY <2>1, Opened
      <3> QED BY <3>1, <3>2 DEF Met
    <2>2. CASE ~(Open(a) /\ k = kind[a])
      <3>1. HasOpened(t, k) /\ path'[k] = path[k]
        BY <1>4, <2>2 DEF HasOpened, Open, Encode
      <3>2. Met(t, data[k][path[k]][p]) /\ pc[t] \in Steps
        BY <1>4, <3>1 DEF MixInv, HasOpened
      <3>3. Met(t, data'[k][path[k]][p])
        BY <1>2, <1>3, <1>4, <3>1, <3>2
      <3> QED BY <1>0, <3>1, <3>3 DEF Met
    <2> QED BY <2>1, <2>2
  <1>5. ASSUME NEW t \in Uploads, pc'[t] = "send", NEW p \in Parts
        PROVE  Met(t, data[kind[t]][stream[t]][p])'
    <2>1. t # a /\ pc[t] = "send" /\ kind[t] \in Kinds /\ stream[t] \in Inodes
      BY <1>1, <1>5
    <2>2. Met(t, data'[kind[t]][stream[t]][p])
      BY <1>3, <2>1 DEF MixInv
    <2> QED BY <1>0, <1>1, <2>1, <2>2 DEF Met
  <1>6. ASSUME NEW t \in Uploads, NEW k \in Kinds, NEW p \in Parts
        PROVE  Met(t, blob[t][k][p])'
    BY <1>0, <1>1 DEF MixInv, Met
  <1> QED BY <1>0, <1>4, <1>5, <1>6, MetStep DEF MixInv

LEMMA MixSends ==
  ASSUME Typed, MixInv, NEW a \in Uploads, Send(a)
  PROVE  MixInv'
  <1> USE DEF Goto, Typed, TypeOK, Placed
  <1>0. Step(a) /\ ~Start(a) /\ met' = met
    BY MetStep DEF Step, Start, Send
  <1>1. /\ data' = data /\ stream' = stream /\ path' = path /\ kind' = kind
        /\ pc' = pc /\ pc[a] = "send"
    BY DEF Send
  <1>2. ASSUME NEW t \in Uploads, NEW k \in Kinds, NEW p \in Parts
        PROVE  Met(t, blob[t][k][p])'
    <2>1. Met(a, data[kind[a]][stream[a]][pos[a] + 1]) /\ Met(t, blob[t][k][p])
      BY <1>1, Sent DEF MixInv
    <2>2. blob'[t][k][p] = IF t = a /\ k = kind[a] /\ p = pos[a] + 1
                           THEN data[k][stream[a]][p] ELSE blob[t][k][p]
      BY Sent
    <2> QED BY <1>0, <2>1, <2>2 DEF Met
  <1> QED BY <1>0, <1>1, <1>2, MetStep DEF MixInv, HasOpened, Met

LEMMA MixAlways == Spec => []MixInv
  <1>1. Init => MixInv
    BY DEF Init, MixInv, HasOpened, Met, Active, Nothing
  <1>2. Typed /\ MixInv /\ [Next]_vars => MixInv'
    <2> SUFFICES ASSUME Typed, MixInv, [Next]_vars PROVE MixInv'
      OBVIOUS
    <2>1. CASE UNCHANGED vars
      BY <2>1 DEF vars, MixInv, HasOpened, Met, Active
    <2>2. ASSUME NEW a \in Uploads, Start(a) \/ Step(a) PROVE MixInv'
      BY <2>2, MixQuiet, MixWrites, MixSends
    <2> QED BY <2>1, <2>2 DEF Next, Quiescent
  <1> QED BY <1>1, <1>2, MediaTyped, PTL DEF Spec

\* A blob never holds bytes of an upload that was not under way together with
\* its own, whatever an earlier run or request left at the two fixed paths
\* (ffmpeg.processor.ts: the outputs are opened with -y).
THEOREM MixesOnlyOverlapping == Spec => []MixesOverlappingOnly
  <1>1. MixInv => MixesOverlappingOnly
    BY DEF MixInv, Met, MixesOverlappingOnly
  <1> QED BY <1>1, MixAlways, PTL

-----------------------------------------------------------------------------
(* Uploads that run alone                                                  *)

Fresh(t, k) == path[k] \in Inodes /\ \A p \in Parts : data[k][path[k]][p] = Whole(t)[p]
Stored(t, k) == \A p \in Parts : blob[t][k][p] = Whole(t)[p]
Unsent(t, k) == \A p \in Parts : blob[t][k][p] = Nobody

\* While upload t creates its outputs, and while it sends them.
Creating(t) ==
  /\ \A k \in Kinds : Unsent(t, k)
  /\ pc[t] = "open" => pos[t] = 0
  /\ pc[t] = "open" /\ kind[t] = "audio" =>
       /\ path["video"] = fd[t]["video"]
       /\ \A p \in Parts : data["video"][path["video"]][p] = Nobody
  /\ pc[t] = "encode" => \A k \in Kinds :
       /\ path[k] = fd[t][k]
       /\ \A p \in Parts : data[k][path[k]][p] = IF p <= pos[t] THEN t ELSE Nobody

Sending(t) ==
  /\ kind[t] = "video" => Fresh(t, "audio") /\ Unsent(t, "audio")
  /\ kind[t] = "audio" => Stored(t, "video")
  /\ pc[t] = "read" => Fresh(t, kind[t]) /\ Unsent(t, kind[t])
  /\ pc[t] = "send" =>
       /\ Fresh(t, kind[t]) /\ stream[t] = path[kind[t]]
       /\ \A p \in Parts :
            blob[t][kind[t]][p] = IF p <= pos[t] THEN Whole(t)[p] ELSE Nobody
  /\ pc[t] = "unlink" =>
       /\ path[kind[t]] # NoFile
       /\ IF sent[t] THEN Stored(t, kind[t]) ELSE t \in faulty

\* What an upload that never met another one has reached.
Progress(t) ==
  /\ pc[t] = "idle" => pos[t] = 0
  /\ pc[t] \in {"open", "encode"} => Creating(t)
  /\ pc[t] \in {"read", "send", "unlink"} => Sending(t)
  /\ pc[t] = "done" => \A k \in Kinds : Stored(t, k)
  /\ pc[t] = "failed" => t \in faulty

AloneInv == \A t \in Uploads : met[t] = {} \/ pc[t] = "idle" => Progress(t)

\* What an upload reaches by its own steps.
LEMMA ProgressCreating ==
  ASSUME Typed, NEW t \in Uploads, Progress(t), Start(t) \/ Open(t) \/ Encode(t)
  PROVE  Progress(t)'
  <1>o. Open(t) => \A k \in Kinds, i \in Inodes, p \in Parts :
          k # kind[t] => data'[k][i][p] = data[k][i][p]
    BY Opened
  <1> USE NamesAssumption, LengthAssumption
  <1> USE DEF Goto, Typed, TypeOK, Placed, Progress, Creating, Unsent
  <1>1. CASE Start(t)
    <2>1. pc'[t] = "open" /\ kind'[t] = "video" /\ pos'[t] = 0 /\ blob' = blob
      BY <1>1 DEF Start
    <2> QED BY <1>1, <2>1 DEF Start
  <1>2. CASE Open(t)
    <2>1. /\ blob' = blob /\ pos' = pos /\ pos[t] = 0 /\ \A k \in Kinds : Unsent(t, k)
          /\ pc'[t] = IF kind[t] = "video" THEN "open" ELSE "encode"
          /\ kind'[t] = IF kind[t] = "video" THEN "audio" ELSE "video"
          /\ \A k \in Kinds : /\ path'[k] = IF k = kind[t] THEN Created(t, k) ELSE path[k]
                              /\ fd'[t][k] = IF k = kind[t] THEN Created(t, k) ELSE fd[t][k]
      BY <1>2 DEF Open
    <2>2. \A p \in Parts : data'[kind[t]][Created(t, kind[t])][p] = Nobody
      BY <1>2, Opened
    <2>3. CASE kind[t] = "video"
      BY <2>1, <2>2, <2>3
    <2>4. CASE kind[t] = "audio"
      <3>1. /\ path["video"] = fd[t]["video"] /\ path["video"] \in Inodes
            /\ \A p \in Parts : data["video"][path["video"]][p] = Nobody
        BY <1>2, <2>4 DEF Open
      <3>a. \A i \in Inodes, p \in Parts : data'["video"][i][p] = data["video"][i][p]
        BY <1>o, <1>2, <2>4
      <3>b. PICK i \in Inodes : i = path["video"]
        BY <3>1
      <3>2. \A p \in Parts : data'["video"][path["video"]][p] = Nobody
        <4> HIDE DEF Typed, TypeOK, Placed, Progress, Inodes, Parts
        <4> QED BY <3>1, <3>a, <3>b
      <3>3. \A k \in Kinds : path'[k] = fd'[t][k] /\ \A p \in Parts : data'[k][path'[k]][p] = Nobody
        BY <2>1, <2>2, <2>4, <3>1, <3>2
      <3>4. \A p \in Parts : ~(p <= 0)
        OBVIOUS
      <3> QED BY <2>1, <2>4, <3>3, <3>4
    <2> QED BY <2>3, <2>4
  <1>3. CASE Encode(t)
    <2>1. /\ blob' = blob /\ pos'[t] = pos[t] + 1 /\ pc' = pc /\ kind' = kind /\ path' = path
          /\ fd' = fd /\ pc[t] = "encode"
      BY <1>3 DEF Encode
    <2>2. ASSUME NEW k \in Kinds, NEW p \in Parts
          PROVE  data'[k][path[k]][p] = IF p <= pos[t] + 1 THEN t ELSE Nobody
      <3>1. /\ path[k] = fd[t][k] /\ path[k] \in Inodes
            /\ data[k][path[k]][p] = IF p <= pos[t] THEN t ELSE Nobody
        BY <2>1
      <3>2. data'[k][path[k]][p] = IF p = pos[t] + 1 THEN t ELSE data[k][path[k]][p]
        BY <1>3, <3>1, Encoded
      <3>3. pos[t] \in Nat
        OBVIOUS
      <3> QED BY <3>1, <3>2, <3>3
    <2> QED BY <2>1, <2>2
  <1> QED BY <1>1, <1>2, <1>3

LEMMA ProgressSending ==
  ASSUME Typed, NEW t \in Uploads, Progress(t), Step(t), ~Open(t), ~Encode(t)
  PROVE  Progress(t)'
  <1> USE NamesAssumption, LengthAssumption
  <1> USE DEF Goto, Typed, TypeOK, Placed, Progress
  <1>w. \A p \in Parts : Whole(t)[p] = IF p <= Length[t] THEN t ELSE Nobody
    BY DEF Whole
  <1>k. kind[t] \in Kinds /\ Length[t] \in Nat /\ pos[t] \in Nat
    OBVIOUS
  <1>1. CASE EncodeEnd(t)
    <2>1. /\ blob' = blob /\ kind' = kind /\ path' = path /\ data' = data /\ pc'[t] = "read"
          /\ kind[t] = "video" /\ pos[t] = Length[t] /\ Creating(t) /\ pc[t] = "encode"
      BY <1>1 DEF EncodeEnd
    <2>2. \A k \in Kinds : Unsent(t, k) /\ Fresh(t, k)
      BY <1>w, <2>1 DEF Creating, Fresh
    <2>3. \A k \in Kinds : Unsent(t, k)' /\ Fresh(t, k)'
      BY <2>1, <2>2 DEF Unsent, Fresh
    <2> QED BY <2>1, <2>3 DEF Sending
  <1>2. CASE ProcessFails(t)
    BY <1>2 DEF ProcessFails
  <1>3. CASE CreateReadStream(t)
    <2>1. /\ blob' = blob /\ kind' = kind /\ path' = path /\ data' = data /\ pc'[t] = "send"
          /\ pos'[t] = 0 /\ stream'[t] = path[kind[t]] /\ pc[t] = "read"
      BY <1>3 DEF CreateReadStream
    <2>2. Sending(t)
      BY <2>1
    <2>3. \A k \in Kinds : Fresh(t, k) => Fresh(t, k)'
      BY <2>1 DEF Fresh
    <2>4. ASSUME NEW p \in Parts PROVE blob'[t][kind[t]][p] = Nobody
      BY <2>1, <2>2 DEF Sending, Unsent
    <2>5. \A p \in Parts : ~(p <= 0)
      OBVIOUS
    <2>6. /\ kind[t] = "video" => Fresh(t, "audio")' /\ Unsent(t, "audio")'
          /\ kind[t] = "audio" => Stored(t, "video")'
          /\ Fresh(t, kind[t]) /\ stream'[t] = path'[kind[t]]
      <3>1. Fresh(t, kind[t]) /\ stream'[t] = path'[kind[t]]
        BY <2>1, <2>2 DEF Sending
      <3>2. kind[t] = "video" => Fresh(t, "audio")' /\ Unsent(t, "audio")'
        BY <2>1, <2>2, <2>3 DEF Sending, Unsent
      <3>3. kind[t] = "audio" => Stored(t, "video")'
        BY <2>1, <2>2 DEF Sending, Stored
      <3> QED BY <3>1, <3>2, <3>3
    <2>7. Fresh(t, kind[t])'
      BY <2>1, <2>6 DEF Fresh
    <2>8. \A p \in Parts :
            blob'[t][kind[t]][p] = IF p <= pos'[t] THEN Whole(t)[p] ELSE Nobody
      BY <2>1, <2>4, <2>5
    <2>9. Sending(t)'
      BY <2>1, <2>6, <2>7, <2>8 DEF Sending
    <2> QED BY <2>1, <2>9
  <1>4. CASE NothingToRead(t)
    BY <1>4, <1>k DEF NothingToRead, Sending, Fresh
  <1>5. CASE Send(t)
    <2>1. /\ kind' = kind /\ path' = path /\ data' = data /\ pc' = pc /\ stream' = stream
          /\ pos'[t] = pos[t] + 1 /\ pc[t] = "send"
      BY <1>5 DEF Send
    <2>2. \A k \in Kinds, p \in Parts :
            blob'[t][k][p] = IF k = kind[t] /\ p = pos[t] + 1
                             THEN data[k][stream[t]][p] ELSE blob[t][k][p]
      BY <1>5, Sent
    <2>3. ASSUME NEW p \in Parts
          PROVE  blob'[t][kind[t]][p] = IF p <= pos[t] + 1 THEN Whole(t)[p] ELSE Nobody
      <3>1. /\ data[kind[t]][stream[t]][p] = Whole(t)[p]
            /\ blob[t][kind[t]][p] = IF p <= pos[t] THEN Whole(t)[p] ELSE Nobody
        BY <2>1 DEF Sending, Fresh
      <3> QED BY <1>k, <2>2, <3>1, SMTT(30)
    <2>4. \A k \in Kinds : Fresh(t, k) => Fresh(t, k)'
      BY <2>1 DEF Fresh
    <2>5. Sending(t)
      BY <2>1
    <2>a. \A k \in Kinds : k # kind[t] => \A p \in Parts : blob'[t][k][p] = blob[t][k][p]
      BY <2>2
    <2>6. kind[t] = "video" => Fresh(t, "audio")' /\ Unsent(t, "audio")'
      BY <2>4, <2>5, <2>a DEF Sending, Unsent
    <2>7. kind[t] = "audio" => Stored(t, "video")'
      BY <2>5, <2>a DEF Sending, Stored
    <2>8. Fresh(t, kind[t])
      BY <2>1, <2>5 DEF Sending
    <2>9. Fresh(t, kind[t])' /\ stream'[t] = path'[kind[t]]
      BY <2>1, <2>5, <2>8 DEF Sending, Fresh
    <2>b. Sending(t)'
      BY <2>1, <2>3, <2>6, <2>7, <2>9 DEF Sending
    <2> QED BY <2>1, <2>b
  <1>6. CASE SendEnd(t)
    <2>1. /\ kind' = kind /\ path' = path /\ data' = data /\ blob' = blob /\ pc'[t] = "unlink"
          /\ sent'[t] = TRUE /\ pc[t] = "send" /\ Sending(t)
      BY <1>6 DEF SendEnd
    <2>2. ASSUME NEW p \in Parts PROVE blob[t][kind[t]][p] = Whole(t)[p]
      <3>1. /\ data[kind[t]][stream[t]][p] = Whole(t)[p]
            /\ blob[t][kind[t]][p] = IF p <= pos[t] THEN Whole(t)[p] ELSE Nobody
        BY <2>1 DEF Sending, Fresh
      <3>2. p > pos[t] => data[kind[t]][stream[t]][p] = Nobody
        BY <1>6 DEF SendEnd, AtEnd
      <3> QED BY <1>k, <3>1, <3>2
    <2> QED BY <1>k, <2>1, <2>2 DEF Sending, Fresh, Stored, Unsent
  <1>7. CASE SendFails(t)
    <2>1. /\ kind' = kind /\ path' = path /\ data' = data /\ blob' = blob /\ pc'[t] = "unlink"
          /\ sent'[t] = FALSE /\ t \in faulty' /\ pc[t] = "send" /\ Sending(t)
      BY <1>7 DEF SendFails
    <2> QED BY <1>k, <2>1 DEF Sending, Fresh, Stored, Unsent
  <1>8. CASE Unlink(t)
    <2>1. /\ data' = data /\ blob' = blob /\ kind'[t] = "audio" /\ faulty' = faulty
          /\ \A k \in Kinds : k # kind[t] => path'[k] = path[k]
          /\ pc[t] = "unlink" /\ Sending(t)
          /\ pc'[t] = IF ~sent[t] THEN "failed" ELSE IF kind[t] = "video" THEN "read" ELSE "done"
      BY <1>8 DEF Unlink
    <2> QED BY <1>k, <2>1 DEF Sending, Fresh, Stored, Unsent
  <1>9. CASE UnlinkMissing(t)
    BY <1>9, <1>k DEF UnlinkMissing, Sending
  <1> QED BY <1>1, <1>2, <1>3, <1>4, <1>5, <1>6, <1>7, <1>8, <1>9 DEF Step

\* Nobody else acts while an upload that runs alone is under way.
LEMMA AloneStep ==
  ASSUME Typed, MixInv, AloneInv, NEW a \in Uploads, Start(a) \/ Step(a)
  PROVE  AloneInv'
  <1> SUFFICES ASSUME NEW t \in Uploads, met'[t] = {} \/ pc'[t] = "idle"
               PROVE  Progress(t)'
    BY DEF AloneInv
  <1> USE DEF Goto, Typed, TypeOK
  <1>1. /\ pc[a] = "idle" \/ a \in Active
        /\ \A u \in Uploads : u # a =>
             /\ pc'[u] = pc[u] /\ pos'[u] = pos[u] /\ blob'[u] = blob[u]
             /\ pc[u] = "idle" => met'[u] = met[u]
        /\ faulty \subseteq faulty' /\ pc'[a] # "idle"
    BY DEF Active, Start, Step, Open, Encode, EncodeEnd, ProcessFails, CreateReadStream,
           NothingToRead, Send, SendEnd, SendFails, Unlink, UnlinkMissing
  <1>2. Progress(t)
    BY <1>1, MetStep DEF AloneInv
  <1>3. CASE t = a
    BY <1>2, <1>3, ProgressCreating, ProgressSending DEF Step
  <1>4. CASE t # a
    <2>1. pc[t] \notin Steps
      <3>1. CASE Start(a)
        BY <1>1, <1>4, <3>1 DEF Start, Active
      <3>2. CASE Step(a)
        <4>1. a \in Active /\ met' = met
          BY <1>1, <3>2, MetStep DEF Start, Step, Open, Encode, EncodeEnd, ProcessFails,
                 CreateReadStream, NothingToRead, Send, SendEnd, SendFails, Unlink, UnlinkMissing
        <4> QED BY <1>1, <1>4, <4>1 DEF MixInv, Active
      <3> QED BY <3>1, <3>2
    <2>2. pc[t] \in {"idle", "done", "failed"}
      BY <2>1
    <2> QED BY <1>1, <1>2, <1>4, <2>2 DEF Progress, Stored
  <1> QED BY <1>3, <1>4

LEMMA AloneAlways == Spec => []AloneInv
  <1>1. Init => AloneInv
    BY DEF Init, AloneInv, Progress
  <1>2. Typed /\ MixInv /\ AloneInv /\ [Next]_vars => AloneInv'
    <2> SUFFICES ASSUME Typed, MixInv, AloneInv, [Next]_vars PROVE AloneInv'
      OBVIOUS
    <2>1. CASE UNCHANGED vars
      BY <2>1 DEF vars, AloneInv, Progress, Creating, Sending, Fresh, Stored, Unsent
    <2> QED BY <2>1, AloneStep DEF Next, Quiescent
  <1> QED BY <1>1, <1>2, MediaTyped, MixAlways, PTL DEF Spec

\* An upload that met no other stores exactly its own two outputs, even when
\* files of an earlier upload were left at the paths
\* (submission-media-uploader.ts: upload).
THEOREM AloneStores == Spec => []AloneStoresItsOwn
  <1>1. Typed /\ AloneInv => AloneStoresItsOwn
    <2> SUFFICES ASSUME Typed, AloneInv, NEW t \in Uploads, pc[t] = "done", met[t] = {}
                 PROVE  blob[t] = [k \in Kinds |-> Whole(t)]
      BY DEF AloneStoresItsOwn
    <2>1. \A k \in Kinds, p \in Parts : blob[t][k][p] = Whole(t)[p]
      BY DEF AloneInv, Progress, Stored
    <2>2. blob[t] \in [Kinds -> Bytes]
      BY DEF Typed, TypeOK
    <2>3. ASSUME NEW k \in Kinds PROVE blob[t][k] = Whole(t)
      <3>1. blob[t][k] \in [Parts -> Inodes \cup {Nobody}]
        BY <2>2 DEF Bytes
      <3>2. Whole(t) = [p \in Parts |-> Whole(t)[p]]
        BY DEF Whole
      <3> QED BY <2>1, <3>1, <3>2
    <2> QED BY <2>2, <2>3
  <1> QED BY <1>1, MediaTyped, AloneAlways, PTL

\* An upload that met no other fails only when one of its own calls did: the
\* files at the paths are there when it reads and when it unlinks them
\* (blob-storage.service.ts: the finally block of uploadFileFromPath).
THEOREM AloneFails == Spec => []AloneFailsOnFaultOnly
  <1>1. AloneInv => AloneFailsOnFaultOnly
    BY DEF AloneInv, Progress, AloneFailsOnFaultOnly
  <1> QED BY <1>1, AloneAlways, PTL

-----------------------------------------------------------------------------
(* What is left at the two paths                                           *)

Past(t, k) ==
  \/ pc[t] = "done"
  \/ pc[t] \in {"read", "send", "unlink"} /\ kind[t] = "audio" /\ k = "video"

\* Upload t has opened output k and is still to remove it.
ToRemove(t, k) == HasOpened(t, k) /\ ~Past(t, k)

\* Once an upload has removed a path, only one that has failed or is still at
\* work can leave a file there.
LeftInv ==
  \A k \in Kinds, t \in Uploads :
    path[k] # NoFile /\ Past(t, k) => \E u \in Uploads : pc[u] = "failed" \/ ToRemove(u, k)

LEMMA LeftStep ==
  ASSUME Typed, LeftInv, NEW a \in Uploads, Start(a) \/ Step(a)
  PROVE  LeftInv'
  <1> SUFFICES ASSUME NEW k \in Kinds, NEW t \in Uploads, path'[k] # NoFile, Past(t, k)'
               PROVE  \E u \in Uploads : pc'[u] = "failed" \/ ToRemove(u, k)'
    BY DEF LeftInv
  <1> USE DEF Goto, Typed, TypeOK
  <1>1. \A u \in Uploads : u # a => pc'[u] = pc[u] /\ kind'[u] = kind[u]
    BY DEF Start, Step, Open, Encode, EncodeEnd, ProcessFails, CreateReadStream,
           NothingToRead, Send, SendEnd, SendFails, Unlink, UnlinkMissing
  <1>2. CASE Open(a) /\ kind[a] = k
    <2>1. ToRemove(a, k)'
      BY <1>2 DEF Open, ToRemove, HasOpened, Past
    <2> QED BY <2>1
  <1>3. CASE ~(Open(a) /\ kind[a] = k)
    <2>1. path[k] # NoFile
      BY <1>3 DEF Start, Step, Open, Encode, EncodeEnd, ProcessFails, CreateReadStream,
             NothingToRead, Send, SendEnd, SendFails, Unlink, UnlinkMissing
    <2>2. Past(t, k)
      <3>1. CASE t = a
        <4>1. CASE Start(a) \/ Open(a) \/ Encode(a) \/ EncodeEnd(a) \/ ProcessFails(a) \/ UnlinkMissing(a)
          BY <3>1, <4>1, Typed DEF Placed, Past, Start, Open, Encode, EncodeEnd, ProcessFails, UnlinkMissing
        <4>2. CASE CreateReadStream(a) \/ NothingToRead(a) \/ Send(a) \/ SendEnd(a) \/ SendFails(a)
          BY <3>1, <4>2 DEF Past, CreateReadStream, NothingToRead, Send, SendEnd, SendFails
        <4>3. CASE Unlink(a)
          BY <3>1, <4>3 DEF Past, Unlink
        <4> QED BY <4>1, <4>2, <4>3 DEF Step
      <3>2. CASE t # a
        BY <1>1, <3>2 DEF Past
      <3> QED BY <3>1, <3>2
    <2>3. PICK u \in Uploads : pc[u] = "failed" \/ ToRemove(u, k)
      BY <2>1, <2>2 DEF LeftInv
    <2>4. CASE u # a
      BY <1>1, <2>3, <2>4 DEF ToRemove, HasOpened, Past
    <2>5. CASE u = a
      <3>1. pc'[a] = "failed" \/ ToRemove(a, k)'
        <4>1. CASE Start(a) \/ Open(a) \/ Encode(a) \/ EncodeEnd(a) \/ ProcessFails(a) \/ UnlinkMissing(a)
          BY <2>3, <2>5, <4>1, <1>3, Typed DEF Placed, ToRemove, HasOpened, Past, Start, Open, Encode, EncodeEnd,
             ProcessFails, UnlinkMissing
        <4>2. CASE CreateReadStream(a) \/ NothingToRead(a) \/ Send(a) \/ SendEnd(a) \/ SendFails(a)
          BY <2>3, <2>5, <4>2 DEF ToRemove, HasOpened, Past, CreateReadStream, NothingToRead, Send,
             SendEnd, SendFails
        <4>3. CASE Unlink(a)
          BY <2>3, <2>5, <4>3 DEF ToRemove, HasOpened, Past, Unlink
        <4> QED BY <4>1, <4>2, <4>3 DEF Step
      <3> QED BY <3>1
    <2> QED BY <2>4, <2>5
  <1> QED BY <1>2, <1>3

\* When every upload so far has succeeded and none is at work, no file is left
\* at the two fixed paths (blob-storage.service.ts: the finally block of
\* uploadFileFromPath): a later upload that reused them would find them free.
THEOREM SuccessCleans == Spec => []SuccessLeavesNoFile
  <1>1. Init => LeftInv
    BY DEF Init, LeftInv, Past
  <1>2. Typed /\ LeftInv /\ [Next]_vars => LeftInv'
    <2> SUFFICES ASSUME Typed, LeftInv, [Next]_vars PROVE LeftInv'
      OBVIOUS
    <2>1. CASE UNCHANGED vars
      BY <2>1 DEF vars, LeftInv, Past, ToRemove, HasOpened
    <2> QED BY <2>1, LeftStep DEF Next, Quiescent
  <1>3. LeftInv => SuccessLeavesNoFile
    BY DEF LeftInv, SuccessLeavesNoFile, Past, ToRemove, HasOpened
  <1> QED BY <1>1, <1>2, <1>3, MediaTyped, PTL DEF Spec
=============================================================================
