--------------------------- MODULE PublicDownload ---------------------------
(***************************************************************************)
(* The file the public page offers for download: a file current.<ext> and  *)
(* current.json, which names it, in one directory without a lock.          *)
(*                                                                         *)
(*   app/services/public_download_service.py                               *)
(*   app/routers/map_router.py   get_public_download                       *)
(*   app/routers/admin.py        upload_public_download_file               *)
(*                                                                         *)
(* Both endpoints run in threads of the server, and every call that touches*)
(* the directory is a step.  An upload is known by its number, in the order*)
(* in which the uploads began, and stands for its bytes, its name and its  *)
(* hash.  A request that is rejected before the temporary file is made     *)
(* changes nothing and is left out.                                        *)
(***************************************************************************)
EXTENDS Naturals, Sequences

CONSTANTS Exts,        \* extensions allowed for the file
          Chunks,      \* pieces in which an upload is copied
          MetaSizes,   \* lengths of current.json
          Readers,     \* threads that answer downloads
          MaxUploads,  \* bound
          MaxFaults,   \* bound: failing file operations
          MaxCrashes   \* bound

ASSUME PublicDownloadAssumption ==
    /\ Chunks \in Nat \ {0}
    /\ MetaSizes \subseteq Nat \ {0}
    /\ {MaxUploads, MaxFaults, MaxCrashes} \subseteq Nat

VARIABLES
    files,    \* current.<ext>, for each extension
    meta,     \* current.json
    uploads,  \* the upload requests, in the order of their beginning
    reader,   \* the downloads
    newest,   \* history: the newest upload that was completed alone
    faults, crashes

vars == <<files, meta, uploads, reader, newest, faults, crashes>>

-----------------------------------------------------------------------------
(* by: the upload the bytes come from, 0 if there is no file. *)
Content == [by : Nat, chunks : Nat]

NoFile == [by |-> 0, chunks |-> 0]

(* by: the upload whose record was written last, 0 if the file is empty.    *)
MetaFile == [exists : BOOLEAN, by : Nat, len : Nat]

(* alone: history, no other upload was running between its two ends.        *)
Request == [pc : {"copy", "replaced", "truncated", "done", "failed"},
            ext : Exts, size : MetaSizes, written : 0..Chunks, alone : BOOLEAN]

Download == [pc : {"idle", "named", "found", "served", "404", "500"},
             name : Nat, content : Content, since : Nat]

Idle == [pc |-> "idle", name |-> 0, content |-> NoFile, since |-> 0]

Ended(u) == uploads[u].pc \in {"done", "failed"}

Running == {u \in DOMAIN uploads : ~Ended(u)}

(* A text longer than the record at its beginning has a tail of another one *)
(* and does not parse.                                                      *)
Readable == meta.by # 0 /\ meta.len = uploads[meta.by].size

NamedFile(u) == files[uploads[u].ext]

Init ==
    /\ files = [e \in Exts |-> NoFile]
    /\ meta = [exists |-> FALSE, by |-> 0, len |-> 0]
    /\ uploads = <<>>
    /\ reader = [r \in Readers |-> Idle]
    /\ newest = 0
    /\ faults = 0 /\ crashes = 0

-----------------------------------------------------------------------------
(* handle_public_download_upload *)

Begin(e, size) ==
    /\ Len(uploads) < MaxUploads
    /\ LET others == [u \in DOMAIN uploads |->
                        IF Ended(u) THEN uploads[u] ELSE [uploads[u] EXCEPT !.alone = FALSE]]
       IN  uploads' = Append(others, [pc |-> "copy", ext |-> e, size |-> size,
                                      written |-> 0, alone |-> Running = {}])
    /\ UNCHANGED <<files, meta, reader, newest, faults, crashes>>

Copied(u) == [uploads EXCEPT ![u].written = uploads[u].written + 1]

(* Variant: the pieces go straight into current.<ext>. *)
CopyInPlace(u) ==
    /\ uploads[u].pc = "copy" /\ uploads[u].written < Chunks
    /\ uploads' = Copied(u)
    /\ files' = [files EXCEPT ![uploads[u].ext] = [by |-> u, chunks |-> uploads[u].written + 1]]
    /\ UNCHANGED <<meta, reader, newest, faults, crashes>>

(* A piece is appended to the temporary file, which nobody else reads.      *)
CopyChunk(u) ==
    /\ uploads[u].pc = "copy" /\ uploads[u].written < Chunks
    /\ uploads' = Copied(u)
    /\ UNCHANGED <<files, meta, reader, newest, faults, crashes>>

(* Variant: a file that is there is left as it is. *)
ReplaceIfMissing(u) ==
    /\ uploads[u].pc = "copy" /\ uploads[u].written = Chunks
    /\ files' = [files EXCEPT ![uploads[u].ext] =
                    IF @.by = 0 THEN [by |-> u, chunks |-> Chunks] ELSE @]
    /\ uploads' = [uploads EXCEPT ![u].pc = "replaced"]
    /\ UNCHANGED <<meta, reader, newest, faults, crashes>>

(* tmp_path.replace(target_path), atomic for readers. *)
Replace(u) ==
    /\ uploads[u].pc = "copy" /\ uploads[u].written = Chunks
    /\ files' = [files EXCEPT ![uploads[u].ext] =
                    [by |-> u, chunks |-> uploads[u].written]]
    /\ uploads' = [uploads EXCEPT ![u].pc = "replaced"]
    /\ UNCHANGED <<meta, reader, newest, faults, crashes>>

(* Variants: the record is opened without emptying it, or while the bytes   *)
(* are still being copied, with the replacement left for later.             *)
OpenKeepingMeta(u) ==
    /\ uploads[u].pc = "replaced"
    /\ meta' = [meta EXCEPT !.exists = TRUE]
    /\ uploads' = [uploads EXCEPT ![u].pc = "truncated"]
    /\ UNCHANGED <<files, reader, newest, faults, crashes>>

WriteMetaFirst(u) ==
    /\ uploads[u].pc = "copy" /\ meta.by # u
    /\ meta' = [exists |-> TRUE, by |-> u, len |-> uploads[u].size]
    /\ UNCHANGED <<files, uploads, reader, newest, faults, crashes>>

(* write_text opens current.json, which empties it, ... *)
OpenMeta(u) ==
    /\ uploads[u].pc = "replaced"
    /\ meta' = [exists |-> TRUE, by |-> 0, len |-> 0]
    /\ uploads' = [uploads EXCEPT ![u].pc = "truncated"]
    /\ UNCHANGED <<files, reader, newest, faults, crashes>>

LaterOf(m, n) == IF m > n THEN m ELSE n

(* ... and writes the record at the beginning of it, whatever another       *)
(* thread has written there in between.                                     *)
WriteMeta(u) ==
    /\ uploads[u].pc = "truncated"
    /\ meta' = [meta EXCEPT !.by = u, !.len = LaterOf(@, uploads[u].size)]
    /\ uploads' = [uploads EXCEPT ![u].pc = "done"]
    /\ newest' = IF uploads[u].alone THEN u ELSE newest
    /\ UNCHANGED <<files, reader, faults, crashes>>

(* A file operation raises: the request ends with what it has done so far.  *)
Fail(u) ==
    /\ u \in Running /\ faults < MaxFaults
    /\ faults' = faults + 1
    /\ uploads' = [uploads EXCEPT ![u].pc = "failed"]
    /\ UNCHANGED <<files, meta, reader, newest, crashes>>

-----------------------------------------------------------------------------
(* get_public_download_file, and the response that opens what it found *)

ReadMeta(r) ==
    /\ reader[r].pc = "idle"
    /\ reader' = [reader EXCEPT ![r] =
                    [Idle EXCEPT !.pc = IF ~meta.exists THEN "404"
                                        ELSE IF ~Readable THEN "500" ELSE "named",
                                 !.name = IF Readable THEN meta.by ELSE 0,
                                 !.since = newest]]
    /\ UNCHANGED <<files, meta, uploads, newest, faults, crashes>>

FindFile(r) ==
    /\ reader[r].pc = "named"
    /\ reader' = [reader EXCEPT ![r].pc =
                    IF NamedFile(reader[r].name).by = 0 THEN "404" ELSE "found"]
    /\ UNCHANGED <<files, meta, uploads, newest, faults, crashes>>

(* FileResponse: the file is opened after the endpoint has returned; what   *)
(* was opened stays readable when it is replaced.                           *)
Serve(r) ==
    /\ reader[r].pc = "found"
    /\ reader' = [reader EXCEPT ![r].pc = "served",
                               ![r].content = NamedFile(reader[r].name)]
    /\ UNCHANGED <<files, meta, uploads, newest, faults, crashes>>

EndDownload(r) ==
    /\ reader[r].pc \in {"served", "404", "500"}
    /\ reader' = [reader EXCEPT ![r] = Idle]
    /\ UNCHANGED <<files, meta, uploads, newest, faults, crashes>>

-----------------------------------------------------------------------------
(* The process stops and starts again: the directory is all that is left.   *)
Crash ==
    /\ crashes < MaxCrashes
    /\ crashes' = crashes + 1
    /\ uploads' = [u \in DOMAIN uploads |->
                      IF Ended(u) THEN uploads[u] ELSE [uploads[u] EXCEPT !.pc = "failed"]]
    /\ reader' = [r \in Readers |-> Idle]
    /\ UNCHANGED <<files, meta, newest, faults>>

Upload(u) == CopyChunk(u) \/ Replace(u) \/ OpenMeta(u) \/ WriteMeta(u) \/ Fail(u)

Read(r) == ReadMeta(r) \/ FindFile(r) \/ Serve(r) \/ EndDownload(r)

Next ==
    \/ \E e \in Exts, size \in MetaSizes : Begin(e, size)
    \/ \E u \in DOMAIN uploads : Upload(u)
    \/ \E r \in Readers : Read(r)
    \/ Crash

Spec == Init /\ [][Next]_vars

-----------------------------------------------------------------------------
(* Every variable has its type. *)
TypeOK ==
    /\ files \in [Exts -> Content]
    /\ meta \in MetaFile /\ meta.by \in 0..Len(uploads)
    /\ uploads \in Seq(Request)
    /\ reader \in [Readers -> Download]
    /\ newest \in 0..Len(uploads)
    /\ {faults, crashes} \subseteq Nat

(* What a visitor downloads is the whole of one upload, however uploads,    *)
(* failures and crashes fall between the steps of the download              *)
(* (public_download_service.py:83-92).                                      *)
ServedWhole ==
    \A r \in Readers : reader[r].pc = "served" =>
        /\ reader[r].content.by # 0
        /\ reader[r].content.chunks = Chunks

(* A record that can be read names a file that is there: the file is put in *)
(* place before the record, and a file of another extension is left, so that*)
(* a visitor who got hold of an older record is served                      *)
(* (public_download_service.py:92, 101, 127).                               *)
NamedFileIsFound ==
    /\ Readable => NamedFile(meta.by).by # 0
    /\ \A r \in Readers : reader[r].pc \in {"named", "found"} =>
          NamedFile(reader[r].name).by # 0

(* A completed upload that no other one overlapped repairs whatever crashes,*)
(* failures and uploads that did overlap left behind: the record is its own *)
(* and the file is its own (public_download_service.py:92-101).             *)
CompletedUploadIsInPlace ==
    (uploads # <<>> /\ uploads[Len(uploads)].pc = "done" /\ uploads[Len(uploads)].alone) =>
        /\ Readable /\ meta.by = Len(uploads)
        /\ NamedFile(meta.by) = [by |-> Len(uploads), chunks |-> Chunks]

(* A visitor is served the upload that was completed alone last before the  *)
(* download began, or a newer one, although other uploads may replace the   *)
(* file, or change the extension, in the middle of it                       *)
(* (docs/architecture.md:221).                                              *)
DownloadIsFresh ==
    \A r \in Readers : reader[r].pc = "served" => reader[r].content.by >= reader[r].since

(* docs/maintenance.md:257-265: the SHA-256 that current.json records is the*)
(* one of current.<ext>.  Claimed when no upload is running and none failed.*)
RecordMatchesFile ==
    (uploads # <<>> /\ \A u \in DOMAIN uploads : uploads[u].pc = "done") =>
        Readable /\ NamedFile(meta.by).by = meta.by
=============================================================================
