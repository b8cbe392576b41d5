---------------------------- MODULE MediaPipeline ----------------------------
(***************************************************************************)
(* SubmissionMediaUploader.upload for requests with a video: one ffmpeg    *)
(* process splits the video into tmp/muted.mp4 and tmp/audio.mp3, ffprobe  *)
(* reads its metadata, and each output is streamed to a new blob and       *)
(* unlinked.  Both paths are the same for every request, and any number of *)
(* POST handlers and the queue consumer may run this at once.              *)
(*                                                                         *)
(* A path leads to an inode, named after the upload that created the file; *)
(* an inode keeps its bytes for those who have it open after the path is   *)
(* unlinked.  Opening an output truncates it (ffmpeg runs with -y).  A     *)
(* file is a few parts, and a part is named after the upload that wrote it *)
(* last.                                                                   *)
(***************************************************************************)
EXTENDS Naturals

CONSTANTS
  Uploads,    \* the calls of upload that have a video path
  MaxParts,   \* bound: the parts of a file
  Length,     \* the parts of each upload's two outputs
  Leftover,   \* a file that an earlier run of the process left behind
  NoFile, Nobody

ASSUME LengthAssumption == MaxParts \in Nat /\ Length \in [Uploads -> 1 .. MaxParts]
ASSUME NamesAssumption ==
  Leftover \notin Uploads /\ NoFile \notin Uploads \cup {Leftover}
  /\ Nobody \notin Uploads \cup {Leftover}

Kinds == {"video", "audio"}
Parts == 1 .. MaxParts
Inodes == Uploads \cup {Leftover}
Bytes == [Parts -> Inodes \cup {Nobody}]

VARIABLES
  pc,       \* where each upload is
  kind,     \* the output an upload is at work on
  path,     \* the inode each of the two paths leads to
  data,     \* the bytes of each inode
  fd,       \* the inodes an upload's ffmpeg process writes to
  pos,      \* parts written by ffmpeg, or read by the stream
  stream,   \* the inode an upload reads from
  sent,     \* the blob the stream was asked to send did not arrive
  blob,     \* the bytes of the blobs an upload has created
  met,      \* history: the uploads that were under way together with one
  faulty    \* history: the uploads that had a failing call

fileVars == <<path, data>>
history == <<met, faulty>>
vars == <<pc, kind, path, data, fd, pos, stream, sent, blob, met, faulty>>

Ended == {"done", "failed"}
Steps == {"open", "encode", "read", "send", "unlink"}
Active == {t \in Uploads : pc[t] \in Steps}

Nothing == [k \in Parts |-> Nobody]
Whole(t) == [k \in Parts |-> IF k <= Length[t] THEN t ELSE Nobody]

TypeOK ==
  /\ pc \in [Uploads -> Steps \cup Ended \cup {"idle"}]
  /\ kind \in [Uploads -> Kinds]
  /\ path \in [Kinds -> Inodes \cup {NoFile}]
  /\ data \in [Kinds -> [Inodes -> Bytes]]
  /\ fd \in [Uploads -> [Kinds -> Inodes \cup {NoFile}]]
  /\ pos \in [Uploads -> 0 .. MaxParts]
  /\ stream \in [Uploads -> Inodes \cup {NoFile}]
  /\ sent \in [Uploads -> BOOLEAN]
  /\ blob \in [Uploads -> [Kinds -> Bytes]]
  /\ met \in [Uploads -> SUBSET Uploads]
  /\ faulty \subseteq Uploads

Init ==
  /\ pc = [t \in Uploads |-> "idle"]
  /\ kind = [t \in Uploads |-> "video"]
  /\ path \in [Kinds -> {NoFile, Leftover}]
  /\ data = [k \in Kinds |-> [i \in Inodes |->
               IF i = Leftover THEN [p \in Parts |-> Leftover] ELSE Nothing]]
  /\ fd = [t \in Uploads |-> [k \in Kinds |-> NoFile]]
  /\ pos = [t \in Uploads |-> 0]
  /\ stream = [t \in Uploads |-> NoFile]
  /\ sent = [t \in Uploads |-> FALSE]
  /\ blob = [t \in Uploads |-> [k \in Kinds |-> Nothing]]
  /\ met = [t \in Uploads |-> {}]
  /\ faulty = {}

Goto(t, from, to) == pc[t] = from /\ pc' = [pc EXCEPT ![t] = to]

-----------------------------------------------------------------------------
(* FfmpegProcessor.process                                                 *)

Start(t) ==
  /\ Goto(t, "idle", "open")
  /\ met' = [u \in Uploads |-> IF u = t THEN Active
                               ELSE IF u \in Active THEN met[u] \cup {t} ELSE met[u]]
  /\ UNCHANGED <<kind, fileVars, fd, pos, stream, sent, blob, faulty>>

\* Variant: an existing output is opened without truncation.
Truncated_Not(t, k) ==
  IF path[k] = NoFile THEN [data EXCEPT ![k][t] = Nothing] ELSE data

\* What opening a path for writing leaves of the file, and where it leads.
Truncated(t, k) ==
  IF path[k] = NoFile THEN [data EXCEPT ![k][t] = Nothing]
  ELSE [data EXCEPT ![k][path[k]] = Nothing]

Created(t, k) == IF path[k] = NoFile THEN t ELSE path[k]

Open(t) ==
  LET k == kind[t] IN
  /\ Goto(t, "open", IF k = "video" THEN "open" ELSE "encode")
  /\ data' = Truncated(t, k)
  /\ path' = [path EXCEPT ![k] = Created(t, k)]
  /\ fd' = [fd EXCEPT ![t][k] = Created(t, k)]
  /\ kind' = [kind EXCEPT ![t] = IF k = "video" THEN "audio" ELSE "video"]
  /\ UNCHANGED <<pos, stream, sent, blob, history>>

\* ffmpeg writes both outputs as it goes through the input.
Encode(t) ==
  /\ Goto(t, "encode", "encode")
  /\ pos[t] < Length[t]
  /\ pos' = [pos EXCEPT ![t] = @ + 1]
  /\ data' = [k \in Kinds |-> [data[k] EXCEPT ![fd[t][k]][pos[t] + 1] = t]]
  /\ UNCHANGED <<kind, path, fd, stream, sent, blob, history>>

\* Variant: resolved at the first event instead of 'end'.
EncodeEnd_Early(t) ==
  /\ Goto(t, "encode", "read")
  /\ fd' = [fd EXCEPT ![t] = [k \in Kinds |-> NoFile]]
  /\ UNCHANGED <<kind, fileVars, pos, stream, sent, blob, history>>

\* The 'end' event; ffprobe, which follows, only reads the uploaded video.
EncodeEnd(t) ==
  /\ Goto(t, "encode", "read")
  /\ pos[t] = Length[t]
  /\ fd' = [fd EXCEPT ![t] = [k \in Kinds |-> NoFile]]
  /\ UNCHANGED <<kind, fileVars, pos, stream, sent, blob, history>>

\* ffmpeg cannot read the video, dies on the way, or ffprobe fails after it:
\* the outputs stay as they are.
ProcessFails(t) ==
  /\ pc[t] \in {"open", "encode"}
  /\ pc' = [pc EXCEPT ![t] = "failed"]
  /\ faulty' = faulty \cup {t}
  /\ fd' = [fd EXCEPT ![t] = [k \in Kinds |-> NoFile]]
  /\ UNCHANGED <<kind, fileVars, pos, stream, sent, blob, met>>

-----------------------------------------------------------------------------
(* BlobStorageService.uploadFileFromPath, for the video and then the audio *)

CreateReadStream(t) ==
  /\ path[kind[t]] # NoFile
  /\ Goto(t, "read", "send")
  /\ stream' = [stream EXCEPT ![t] = path[kind[t]]]
  /\ pos' = [pos EXCEPT ![t] = 0]
  /\ UNCHANGED <<kind, fileVars, fd, sent, blob, history>>

\* The stream emits ENOENT and uploadStream rejects.
NothingToRead(t) ==
  /\ path[kind[t]] = NoFile
  /\ Goto(t, "read", "unlink")
  /\ sent' = [sent EXCEPT ![t] = FALSE]
  /\ UNCHANGED <<kind, fileVars, fd, pos, stream, blob, history>>

AtEnd(t) == \A p \in Parts : p > pos[t] => data[kind[t]][stream[t]][p] = Nobody

Send(t) ==
  /\ Goto(t, "send", "send")
  /\ ~AtEnd(t)
  /\ pos' = [pos EXCEPT ![t] = @ + 1]
  /\ blob' = [blob EXCEPT ![t][kind[t]][pos[t] + 1] = data[kind[t]][stream[t]][pos[t] + 1]]
  /\ UNCHANGED <<kind, fileVars, fd, stream, sent, history>>

SendEnd(t) ==
  /\ Goto(t, "send", "unlink")
  /\ AtEnd(t)
  /\ sent' = [sent EXCEPT ![t] = TRUE]
  /\ stream' = [stream EXCEPT ![t] = NoFile]
  /\ UNCHANGED <<kind, fileVars, fd, pos, blob, history>>

SendFails(t) ==
  /\ Goto(t, "send", "unlink")
  /\ sent' = [sent EXCEPT ![t] = FALSE]
  /\ stream' = [stream EXCEPT ![t] = NoFile]
  /\ faulty' = faulty \cup {t}
  /\ UNCHANGED <<kind, fileVars, fd, pos, blob, met>>

\* Variant: both outputs are removed once the video is sent.
Unlink_Both(t) ==
  /\ path[kind[t]] # NoFile
  /\ Goto(t, "unlink", IF ~sent[t] THEN "failed"
                       ELSE IF kind[t] = "video" THEN "read" ELSE "done")
  /\ path' = [k \in Kinds |-> NoFile]
  /\ kind' = [kind EXCEPT ![t] = "audio"]
  /\ UNCHANGED <<data, fd, pos, stream, sent, blob, history>>

\* Variant: without the finally block.
Unlink_Keeps(t) ==
  /\ path[kind[t]] # NoFile
  /\ Goto(t, "unlink", IF ~sent[t] THEN "failed"
                       ELSE IF kind[t] = "video" THEN "read" ELSE "done")
  /\ kind' = [kind EXCEPT ![t] = "audio"]
  /\ UNCHANGED <<fileVars, fd, pos, stream, sent, blob, history>>

\* The finally block: the path is removed, whoever's file it leads to.
Unlink(t) ==
  /\ path[kind[t]] # NoFile
  /\ Goto(t, "unlink", IF ~sent[t] THEN "failed"
                       ELSE IF kind[t] = "video" THEN "read" ELSE "done")
  /\ path' = [path EXCEPT ![kind[t]] = NoFile]
  /\ kind' = [kind EXCEPT ![t] = "audio"]
  /\ UNCHANGED <<data, fd, pos, stream, sent, blob, history>>

\* Variant: unlink waits for the file to be there.
UnlinkMissing_Waits(t) ==
  /\ path[kind[t]] = NoFile
  /\ Goto(t, "unlink", "unlink")
  /\ UNCHANGED <<kind, fileVars, fd, pos, stream, sent, blob, history>>

\* Another upload has removed it: unlink throws, even if the blob is complete.
UnlinkMissing(t) ==
  /\ path[kind[t]] = NoFile
  /\ Goto(t, "unlink", "failed")
  /\ UNCHANGED <<kind, fileVars, fd, pos, stream, sent, blob, history>>

-----------------------------------------------------------------------------
Step(t) ==
  \/ Open(t) \/ Encode(t) \/ EncodeEnd(t) \/ ProcessFails(t)
  \/ CreateReadStream(t) \/ NothingToRead(t)
  \/ Send(t) \/ SendEnd(t) \/ SendFails(t)
  \/ Unlink(t) \/ UnlinkMissing(t)

\* Every request has been served.
Quiescent == (\A t \in Uploads : pc[t] \in Ended) /\ UNCHANGED vars

Next == (\E t \in Uploads : Start(t) \/ Step(t)) \/ Quiescent

Spec == Init /\ [][Next]_vars

\* ffmpeg, the streams and unlink all come to an end.
FairSpec == Spec /\ \A t \in Uploads : WF_vars(Step(t))

-----------------------------------------------------------------------------
(* Properties                                                              *)

\* An upload that ran alone stores its own two outputs, whole, whatever files
\* earlier uploads left at the two paths.
AloneStoresItsOwn ==
  \A t \in Uploads :
    pc[t] = "done" /\ met[t] = {} => blob[t] = [k \in Kinds |-> Whole(t)]

\* An upload that ran alone fails only if one of its own calls failed.
AloneFailsOnFaultOnly ==
  \A t \in Uploads : pc[t] = "failed" /\ met[t] = {} => t \in faulty

\* A stored blob may mix requests, but only ones that were under way at the
\* same time: a file left behind never gets into it.
MixesOverlappingOnly ==
  \A t \in Uploads, k \in Kinds : pc[t] = "done" =>
    \A p \in Parts : blob[t][k][p] \in {t, Nobody} \cup met[t]

\* When every upload so far has succeeded and none is under way, none of
\* their files is left at the two paths.
SuccessLeavesNoFile ==
  (/\ \E t \in Uploads : pc[t] = "done"
   /\ \A t \in Uploads : pc[t] \in {"idle", "done"}) =>
     \A k \in Kinds : path[k] = NoFile

\* Every upload ends, so that the Promise.allSettled waiting for it does.
EveryUploadEnds == \A t \in Uploads : pc[t] = "open" ~> pc[t] \in Ended
=============================================================================
