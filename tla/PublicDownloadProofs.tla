------------------------ MODULE PublicDownloadProofs ------------------------
(***************************************************************************)
(* Theorems about PublicDownload for every value of its constants: any     *)
(* number of uploads and downloads at once, of faults and of crashes.      *)
(***************************************************************************)
EXTENDS PublicDownload, SequenceTheorems, TLAPS

-----------------------------------------------------------------------------
(* The inductive invariant. *)

(* A file is only ever put in place whole. *)
FilesAreWhole ==
    \A e \in Exts : files[e].by # 0 =>
        files[e].by \in 1 .. Len(uploads) /\ files[e].chunks = Chunks

Placed(u) == uploads[u].pc \in {"replaced", "truncated", "done"}

(* Whoever means to name a file, or has been told its name, finds one. *)
FilesAreThere ==
    /\ \A u \in 1 .. Len(uploads) : Placed(u) => NamedFile(u).by # 0
    /\ meta.by # 0 => NamedFile(meta.by).by # 0
    /\ \A r \in Readers : reader[r].pc \in {"named", "found"} =>
          reader[r].name \in 1 .. Len(uploads) /\ NamedFile(reader[r].name).by # 0
    /\ ServedWhole

(* An upload that is running alone is the last, and nobody interferes with  *)
(* what it has done.                                                        *)
LastAlone ==
    /\ \A u \in 1 .. Len(uploads) : (uploads[u].alone /\ ~Ended(u)) => u = Len(uploads)
    /\ LET n == Len(uploads)
       IN  (n # 0 /\ uploads[n].alone) =>
              /\ \A u \in 1 .. n : u # n => Ended(u)
              /\ Placed(n) => NamedFile(n) = [by |-> n, chunks |-> Chunks]
              /\ uploads[n].pc = "truncated" => meta.by = 0 /\ meta.len = 0
              /\ uploads[n].pc = "done" => meta.by = n /\ meta.len = uploads[n].size

(* Nothing that is older than the newest upload completed alone is still on *)
(* its way, and a download holds nothing older than when it began.          *)
NothingGoesBack ==
    /\ \A u \in 1 .. Len(uploads) : ~Ended(u) =>
          /\ u > newest
          /\ Placed(u) => NamedFile(u).by >= newest
    /\ meta.by # 0 => NamedFile(meta.by).by >= newest
    /\ \A r \in Readers :
          /\ reader[r].since <= newest
          /\ reader[r].pc \in {"named", "found"} =>
                NamedFile(reader[r].name).by >= reader[r].since
          /\ reader[r].pc = "served" => reader[r].content.by >= reader[r].since

IInv ==
    /\ TypeOK
    /\ FilesAreWhole
    /\ FilesAreThere
    /\ LastAlone
    /\ NothingGoesBack

-----------------------------------------------------------------------------
(* The uploads as a sequence. *)

(* What an upload in progress may become. *)
LEMMA UploadType ==
    ASSUME TypeOK, NEW u \in DOMAIN uploads
    PROVE  /\ Len(uploads) \in Nat /\ DOMAIN uploads = 1 .. Len(uploads)
           /\ u \in 1 .. Len(uploads) /\ uploads[u] \in Request
<1> uploads \in Seq(Request)
  BY DEF TypeOK
<1> QED
  OBVIOUS

(* One upload changes, and stays the upload it is: what a step has to show. *)
LEMMA UploadChanged ==
    ASSUME TypeOK, NEW u \in DOMAIN uploads, NEW v \in Request,
           v.ext = uploads[u].ext, uploads' = [uploads EXCEPT ![u] = v]
    PROVE  /\ uploads' \in Seq(Request) /\ Len(uploads') = Len(uploads)
           /\ DOMAIN uploads' = 1 .. Len(uploads)
           /\ uploads'[u] = v
           /\ \A w \in 1 .. Len(uploads) : w # u => uploads'[w] = uploads[w]
           /\ \A w \in 1 .. Len(uploads) : uploads'[w].ext = uploads[w].ext
<1>1. /\ uploads \in Seq(Request) /\ u \in 1 .. Len(uploads)
      /\ DOMAIN uploads = 1 .. Len(uploads)
  BY UploadType DEF TypeOK
<1>2. uploads' \in Seq(Request) /\ Len(uploads') = Len(uploads)
  BY <1>1, ExceptSeq
<1>3. DOMAIN uploads' = 1 .. Len(uploads)
  BY <1>2
<1> QED
  BY <1>1, <1>2, <1>3

LEMMA InitIInv == Init => IInv
<1> SUFFICES ASSUME Init
             PROVE  IInv
  OBVIOUS
<1>1. uploads \in Seq(Request) /\ Len(uploads) = 0
  BY DEF Init
<1>2. TypeOK
  BY <1>1 DEF Init, TypeOK, Content, NoFile, MetaFile, Download, Idle
<1> QED
  BY <1>1, <1>2 DEF Init, IInv, FilesAreWhole, FilesAreThere, LastAlone, NothingGoesBack,
     ServedWhole, NoFile, Idle

-----------------------------------------------------------------------------
(* Each action keeps it. *)

(* An upload begins. *)
LEMMA BeginStep ==
    ASSUME IInv, NEW e \in Exts, NEW size \in MetaSizes, Begin(e, size)
    PROVE  IInv'
<1> PICK n : n = Len(uploads)
  OBVIOUS
<1> DEFINE new == [pc |-> "copy", ext |-> e, size |-> size,
                   written |-> 0, alone |-> Running = {}]
           others == [u \in DOMAIN uploads |->
                        IF Ended(u) THEN uploads[u] ELSE [uploads[u] EXCEPT !.alone = FALSE]]
<1>1. n \in Nat /\ uploads \in Seq(Request) /\ DOMAIN uploads = 1 .. n
  BY DEF IInv, TypeOK
<1>2. \A u \in 1 .. n : uploads[u] \in Request
  BY <1>1
<1>3. \A u \in 1 .. n : /\ others[u] \in Request
                        /\ others[u].ext = uploads[u].ext /\ others[u].pc = uploads[u].pc
                        /\ others[u].size = uploads[u].size
                        /\ Ended(u) => others[u] = uploads[u]
                        /\ ~Ended(u) => ~others[u].alone
  BY <1>1, <1>2 DEF Request
<1>4. others \in Seq(Request) /\ Len(others) = n
  BY <1>1, <1>3
<1>5. new \in Request /\ new.pc = "copy"
  BY PublicDownloadAssumption DEF PublicDownloadAssumption, Request
<1>6. uploads' = Append(others, new)
  BY DEF Begin
<1>7. new.alone => \A u \in 1 .. n : Ended(u)
  BY <1>1 DEF Running
<1>8. UNCHANGED <<files, meta, reader, newest, faults, crashes>>
  BY DEF Begin
<1> HIDE DEF others, new
<1>9. /\ uploads' \in Seq(Request) /\ Len(uploads') = n + 1
      /\ uploads'[n + 1] = new
      /\ \A u \in 1 .. n : uploads'[u] = others[u]
  BY <1>1, <1>4, <1>5, <1>6
<1>10. \A u \in 1 .. n : /\ uploads'[u].ext = uploads[u].ext /\ uploads'[u].pc = uploads[u].pc
                         /\ uploads'[u].size = uploads[u].size
                         /\ Ended(u)' = Ended(u) /\ Placed(u)' = Placed(u)
                         /\ NamedFile(u)' = NamedFile(u)
  BY <1>3, <1>8, <1>9 DEF Ended, Placed, NamedFile
<1>e. \A u \in 1 .. n : uploads'[u].ext = uploads[u].ext
  BY <1>10
<1>11. TypeOK'
  BY <1>1, <1>8, <1>9 DEF IInv, TypeOK
<1>12. ~Ended(n + 1)' /\ ~Placed(n + 1)'
  BY <1>5, <1>9 DEF Ended, Placed
<1>13. FilesAreWhole'
  BY <1>1, <1>8, <1>9 DEF IInv, FilesAreWhole
<1>14. FilesAreThere'
  BY <1>1, <1>8, <1>9, <1>10, <1>12 DEF IInv, TypeOK, FilesAreThere, ServedWhole
<1>15. LastAlone'
  BY <1>1, <1>3, <1>5, <1>7, <1>9, <1>10, <1>12 DEF LastAlone, Ended
<1>16. NothingGoesBack'
  <2> PICK m : m = n + 1
    OBVIOUS
  <2>1. /\ meta.by = 0 \/ meta.by \in 1 .. n
        /\ \A r \in Readers : reader[r].pc \in {"named", "found"} => reader[r].name \in 1 .. n
        /\ newest \in Nat /\ newest < m
    BY <1>1 DEF IInv, TypeOK, FilesAreThere
  <2>2. \A w \in 1 .. n : ~Ended(w)' =>
           w > newest /\ (Placed(w)' => NamedFile(w)'.by >= newest)
    BY <1>1, <1>10 DEF IInv, NothingGoesBack
  <2>3. meta.by # 0 => files[uploads'[meta.by].ext].by >= newest
    BY <1>e, <2>1 DEF IInv, NothingGoesBack, NamedFile
  <2>4. \A r \in Readers :
           /\ reader[r].since <= newest
           /\ reader[r].pc \in {"named", "found"} =>
                 files[uploads'[reader[r].name].ext].by >= reader[r].since
           /\ reader[r].pc = "served" => reader[r].content.by >= reader[r].since
    BY <1>e, <2>1 DEF IInv, NothingGoesBack, NamedFile
  <2>5. \A w \in 1 .. m : w \in 1 .. n \/ w = m
    BY <1>1
  <2> QED
    BY <1>8, <1>9, <1>12, <2>1, <2>2, <2>3, <2>4, <2>5 DEF NothingGoesBack, NamedFile
<1> QED
  BY <1>11, <1>13, <1>14, <1>15, <1>16 DEF IInv

(* A piece is copied, or a file operation fails: no file changes. *)
LEMMA CopyOrFailStep ==
    ASSUME IInv, NEW u \in DOMAIN uploads, CopyChunk(u) \/ Fail(u)
    PROVE  IInv'
<1> DEFINE v == IF CopyChunk(u) THEN [uploads[u] EXCEPT !.written = uploads[u].written + 1]
                ELSE [uploads[u] EXCEPT !.pc = "failed"]
<1>1. uploads[u] \in Request
  BY UploadType DEF IInv
<1>2. /\ v \in Request /\ v.ext = uploads[u].ext /\ v.size = uploads[u].size
      /\ v.alone = uploads[u].alone
      /\ v.pc = uploads[u].pc \/ v.pc = "failed"
  <2>1. CASE CopyChunk(u)
    <3>1. uploads[u].written + 1 \in 0 .. Chunks
      BY <1>1, <2>1, PublicDownloadAssumption DEF CopyChunk, Request, PublicDownloadAssumption
    <3> QED
      BY <1>1, <2>1, <3>1 DEF Request
  <2>2. CASE ~CopyChunk(u)
    BY <1>1, <2>2 DEF Request
  <2> QED
    BY <2>1, <2>2
<1>3. uploads' = [uploads EXCEPT ![u] = v]
  <2>1. CASE CopyChunk(u)
    BY <2>1 DEF CopyChunk, Copied
  <2>2. CASE ~CopyChunk(u)
    BY <2>2 DEF Fail
  <2> QED
    BY <2>1, <2>2
<1>4. UNCHANGED <<files, meta, reader, newest, crashes>> /\ faults' \in Nat
  BY DEF CopyChunk, Fail, IInv, TypeOK
<1> HIDE DEF v
<1>5. /\ uploads' \in Seq(Request) /\ Len(uploads') = Len(uploads)
      /\ uploads'[u] = v
      /\ \A w \in 1 .. Len(uploads) : w # u => uploads'[w] = uploads[w]
  BY <1>2, <1>3, UploadChanged DEF IInv
<1>6. \A w \in 1 .. Len(uploads) :
         /\ uploads'[w].ext = uploads[w].ext /\ uploads'[w].size = uploads[w].size
         /\ uploads'[w].alone = uploads[w].alone
         /\ uploads'[w].pc = uploads[w].pc \/ uploads'[w].pc = "failed"
  BY <1>2, <1>5
<1>7. TypeOK'
  BY <1>4, <1>5 DEF IInv, TypeOK
<1>s. \A w \in 1 .. Len(uploads) :
         /\ Ended(w) => Ended(w)' /\ uploads'[w].pc = uploads[w].pc
         /\ Placed(w)' => Placed(w)
         /\ NamedFile(w)' = NamedFile(w)
  BY <1>4, <1>5, <1>6 DEF Placed, NamedFile, Ended, CopyChunk, Fail, Running
<1>e. \A w \in 1 .. Len(uploads) : uploads'[w].ext = uploads[w].ext
  BY <1>6
<1>m. /\ meta.by = 0 \/ meta.by \in 1 .. Len(uploads)
      /\ \A r \in Readers : reader[r].pc \in {"named", "found"} =>
            reader[r].name \in 1 .. Len(uploads)
  BY DEF IInv, TypeOK, FilesAreThere
<1>8. FilesAreWhole' /\ FilesAreThere'
  <2>1. FilesAreWhole'
    BY <1>4, <1>5 DEF IInv, FilesAreWhole
  <2>2. \A w \in 1 .. Len(uploads') : Placed(w)' => NamedFile(w)'.by # 0
    BY <1>5, <1>s DEF IInv, FilesAreThere
  <2>3. meta.by # 0 => files[uploads'[meta.by].ext].by # 0
    BY <1>e, <1>m DEF IInv, FilesAreThere, NamedFile
  <2>4. \A r \in Readers : reader[r].pc \in {"named", "found"} =>
           files[uploads'[reader[r].name].ext].by # 0
    BY <1>e, <1>m DEF IInv, FilesAreThere, NamedFile
  <2>5. ServedWhole'
    BY <1>4 DEF IInv, FilesAreThere, ServedWhole
  <2> QED
    BY <1>4, <1>5, <1>m, <2>1, <2>2, <2>3, <2>4, <2>5 DEF FilesAreThere, NamedFile
<1>9. LastAlone'
  <2> PICK n : n = Len(uploads)
    OBVIOUS
  <2>1. \A w \in 1 .. n : uploads'[w].alone /\ ~Ended(w)' => w = n
    BY <1>6, <1>s DEF IInv, LastAlone
  <2>2. ASSUME n # 0, uploads'[n].alone
        PROVE  /\ \A w \in 1 .. n : w # n => Ended(w)'
               /\ Placed(n)' => NamedFile(n)' = [by |-> n, chunks |-> Chunks]
               /\ uploads'[n].pc = "truncated" => meta'.by = 0 /\ meta'.len = 0
               /\ uploads'[n].pc = "done" => meta'.by = n /\ meta'.len = uploads'[n].size
    <3>1. n \in 1 .. n /\ uploads[n].alone
      BY <1>6, <2>2 DEF IInv, TypeOK
    <3>2. /\ \A w \in 1 .. n : w # n => Ended(w)
          /\ Placed(n) => NamedFile(n) = [by |-> n, chunks |-> Chunks]
          /\ uploads[n].pc = "truncated" => meta.by = 0 /\ meta.len = 0
          /\ uploads[n].pc = "done" => meta.by = n /\ meta.len = uploads[n].size
      BY <2>2, <3>1 DEF IInv, LastAlone
    <3> QED
      BY <1>4, <1>6, <1>s, <3>1, <3>2
  <2> QED
    BY <1>5, <2>1, <2>2 DEF LastAlone
<1>10. NothingGoesBack'
  <2>1. \A w \in 1 .. Len(uploads) : ~Ended(w)' =>
           w > newest /\ (Placed(w)' => NamedFile(w)'.by >= newest)
    BY <1>s DEF IInv, NothingGoesBack
  <2>2. meta.by # 0 => files[uploads'[meta.by].ext].by >= newest
    BY <1>e, <1>m DEF IInv, NothingGoesBack, NamedFile
  <2>3. \A r \in Readers : reader[r].pc \in {"named", "found"} =>
           files[uploads'[reader[r].name].ext].by >= reader[r].since
    BY <1>e, <1>m DEF IInv, NothingGoesBack, NamedFile
  <2>4. \A r \in Readers :
           /\ reader[r].since <= newest
           /\ reader[r].pc = "served" => reader[r].content.by >= reader[r].since
    BY DEF IInv, NothingGoesBack
  <2> QED
    BY <1>4, <1>5, <2>1, <2>2, <2>3, <2>4 DEF NothingGoesBack, NamedFile
<1> QED
  BY <1>7, <1>8, <1>9, <1>10 DEF IInv

(* The file is put in place. *)
LEMMA ReplaceStep ==
    ASSUME IInv, NEW u \in DOMAIN uploads, Replace(u)
    PROVE  IInv'
<1> DEFINE v == [uploads[u] EXCEPT !.pc = "replaced"]
           file == [by |-> u, chunks |-> Chunks]
<1>1. /\ uploads[u] \in Request /\ uploads[u].pc = "copy" /\ u \in 1 .. Len(uploads)
      /\ Len(uploads) \in Nat /\ uploads[u].ext \in Exts
  BY UploadType DEF IInv, Replace, Request
<1>2. /\ v \in Request /\ v.ext = uploads[u].ext /\ v.size = uploads[u].size
      /\ v.alone = uploads[u].alone /\ v.pc = "replaced"
  BY <1>1 DEF Request
<1>3. /\ uploads' = [uploads EXCEPT ![u] = v]
      /\ files' = [files EXCEPT ![uploads[u].ext] = file]
      /\ UNCHANGED <<meta, reader, newest, faults, crashes>>
  BY DEF Replace
<1>4. file \in Content /\ file.by = u /\ file.chunks = Chunks
  BY <1>1, PublicDownloadAssumption DEF Content, PublicDownloadAssumption
<1> HIDE DEF v, file
<1>5. /\ uploads' \in Seq(Request) /\ Len(uploads') = Len(uploads)
      /\ uploads'[u] = v
      /\ \A w \in 1 .. Len(uploads) : w # u => uploads'[w] = uploads[w]
  BY <1>2, <1>3, UploadChanged DEF IInv
<1>6. \A w \in 1 .. Len(uploads) :
         /\ uploads[w].ext \in Exts
         /\ uploads'[w].ext = uploads[w].ext /\ uploads'[w].size = uploads[w].size
         /\ uploads'[w].alone = uploads[w].alone
  BY <1>2, <1>5, UploadType DEF IInv, TypeOK, Request
<1>7. \A e \in Exts : files'[e] = IF e = uploads[u].ext THEN file ELSE files[e]
  BY <1>3 DEF IInv, TypeOK
<1>8. u > newest /\ newest \in Nat
  BY <1>1 DEF IInv, TypeOK, NothingGoesBack, Ended
<1>9. \A w \in 1 .. Len(uploads) :
         files'[uploads'[w].ext].by = IF uploads[w].ext = uploads[u].ext THEN u
                                      ELSE NamedFile(w).by
  BY <1>4, <1>6, <1>7 DEF NamedFile
<1>10. TypeOK'
  BY <1>3, <1>4, <1>5 DEF IInv, TypeOK
<1>11. FilesAreWhole'
  BY <1>1, <1>3, <1>4, <1>5, <1>7 DEF IInv, FilesAreWhole
<1>12. FilesAreThere'
  BY <1>1, <1>2, <1>3, <1>5, <1>6, <1>9 DEF IInv, TypeOK, FilesAreThere, ServedWhole,
     Placed, NamedFile
<1>13. LastAlone'
  <2> SUFFICES ASSUME NEW n, n = Len(uploads), n # 0, uploads[n].alone
               PROVE  /\ \A w \in 1 .. n : w # n => Ended(w)'
                      /\ Placed(n)' => NamedFile(n)' = [by |-> n, chunks |-> Chunks]
                      /\ uploads'[n].pc = "truncated" => meta'.by = 0 /\ meta'.len = 0
                      /\ uploads'[n].pc = "done" =>
                            meta'.by = n /\ meta'.len = uploads'[n].size
    BY <1>1, <1>2, <1>5, <1>6 DEF IInv, LastAlone, Placed, Ended, NamedFile
  <2>1. u = n
    BY <1>1 DEF IInv, LastAlone, Ended
  <2>2. files'[uploads'[n].ext] = file
    BY <1>1, <1>6, <1>7, <2>1
  <2> QED
    BY <1>2, <1>5, <2>1, <2>2 DEF IInv, LastAlone, Ended, NamedFile, Placed, file
<1>14. NothingGoesBack'
  <2> DEFINE after(w) == files'[uploads'[w].ext].by
  <2>1. \A w \in 1 .. Len(uploads) : Ended(w)' = Ended(w)
    BY <1>1, <1>2, <1>5 DEF Ended
  <2>2. \A w \in 1 .. Len(uploads) : Placed(w)' => Placed(w) \/ w = u
    BY <1>5 DEF Placed
  <2>3. \A w \in 1 .. Len(uploads) :
            after(w) = IF uploads[w].ext = uploads[u].ext THEN u ELSE NamedFile(w).by
    BY <1>9
  <2> HIDE DEF after
  <2>4. \A w \in 1 .. Len(uploads), m \in Nat :
            (m <= newest /\ NamedFile(w).by >= m) => after(w) >= m
    BY <1>1, <1>8, <2>3
  <2>5. ASSUME NEW w \in 1 .. Len(uploads), ~Ended(w)
        PROVE  w > newest /\ (Placed(w)' => after(w) >= newest)
    BY <1>1, <1>8, <2>2, <2>3, <2>4, <2>5 DEF IInv, NothingGoesBack
  <2>6. meta.by # 0 => after(meta.by) >= newest
    BY <1>1, <1>8, <2>4 DEF IInv, TypeOK, NothingGoesBack
  <2>7. \A r \in Readers : reader[r].since \in Nat
    BY DEF IInv, TypeOK, Download
  <2>8. ASSUME NEW r \in Readers, reader[r].pc \in {"named", "found"}
        PROVE  after(reader[r].name) >= reader[r].since
    BY <2>4, <2>7, <2>8 DEF IInv, FilesAreThere, NothingGoesBack
  <2> QED
    BY <1>3, <1>5, <2>1, <2>5, <2>6, <2>8 DEF IInv, NothingGoesBack, NamedFile, after
<1> QED
  BY <1>10, <1>11, <1>12, <1>13, <1>14 DEF IInv

(* The record is emptied. *)
LEMMA OpenMetaStep ==
    ASSUME IInv, NEW u \in DOMAIN uploads, OpenMeta(u)
    PROVE  IInv'
<1> DEFINE v == [uploads[u] EXCEPT !.pc = "truncated"]
<1>1. uploads[u] \in Request /\ uploads[u].pc = "replaced" /\ u \in 1 .. Len(uploads)
  BY UploadType DEF IInv, OpenMeta
<1>2. /\ v \in Request /\ v.ext = uploads[u].ext /\ v.size = uploads[u].size
      /\ v.alone = uploads[u].alone /\ v.pc = "truncated"
  BY <1>1 DEF Request
<1>3. /\ uploads' = [uploads EXCEPT ![u] = v]
      /\ meta' = [exists |-> TRUE, by |-> 0, len |-> 0]
      /\ UNCHANGED <<files, reader, newest, faults, crashes>>
  BY DEF OpenMeta
<1> HIDE DEF v
<1>4. /\ uploads' \in Seq(Request) /\ Len(uploads') = Len(uploads)
      /\ Len(uploads) \in Nat /\ uploads'[u] = v
      /\ \A w \in 1 .. Len(uploads) : w # u => uploads'[w] = uploads[w]
  BY <1>2, <1>3, UploadChanged, UploadType DEF IInv
<1>5. \A w \in 1 .. Len(uploads) :
         /\ uploads'[w].ext = uploads[w].ext /\ uploads'[w].size = uploads[w].size
         /\ uploads'[w].alone = uploads[w].alone
         /\ Placed(w)' = Placed(w) /\ Ended(w)' = Ended(w)
  BY <1>1, <1>2, <1>4 DEF Placed, Ended
<1>6. TypeOK'
  BY <1>3, <1>4 DEF IInv, TypeOK, MetaFile
<1>7. FilesAreWhole' /\ FilesAreThere'
  BY <1>3, <1>4, <1>5 DEF IInv, FilesAreWhole, FilesAreThere, ServedWhole, NamedFile
<1>8. LastAlone'
  <2> SUFFICES ASSUME NEW n, n = Len(uploads), n # 0, uploads[n].alone
               PROVE  /\ \A w \in 1 .. n : w # n => Ended(w)'
                      /\ Placed(n)' => NamedFile(n)' = [by |-> n, chunks |-> Chunks]
                      /\ uploads'[n].pc = "truncated" => meta'.by = 0 /\ meta'.len = 0
                      /\ uploads'[n].pc = "done" =>
                            meta'.by = n /\ meta'.len = uploads'[n].size
    BY <1>4, <1>5 DEF IInv, LastAlone, Placed, Ended, NamedFile
  <2>1. u = n
    BY <1>1 DEF IInv, LastAlone, Ended
  <2> QED
    BY <1>2, <1>3, <1>4, <1>5, <2>1 DEF IInv, LastAlone, NamedFile
<1>9. NothingGoesBack'
  BY <1>3, <1>4, <1>5 DEF IInv, NothingGoesBack, NamedFile
<1> QED
  BY <1>6, <1>7, <1>8, <1>9 DEF IInv

(* The record is written, and the upload is complete. *)
LEMMA WriteMetaStep ==
    ASSUME IInv, NEW u \in DOMAIN uploads, WriteMeta(u)
    PROVE  IInv'
<1> DEFINE v == [uploads[u] EXCEPT !.pc = "done"]
<1>1. /\ uploads[u] \in Request /\ uploads[u].pc = "truncated" /\ u \in 1 .. Len(uploads)
      /\ Len(uploads) \in Nat
  BY UploadType DEF IInv, WriteMeta
<1>2. /\ v \in Request /\ v.ext = uploads[u].ext /\ v.size = uploads[u].size
      /\ v.alone = uploads[u].alone /\ v.pc = "done"
  BY <1>1 DEF Request
<1>3. uploads[u].size \in Nat /\ meta.len \in Nat
  BY <1>1, PublicDownloadAssumption
     DEF PublicDownloadAssumption, Request, IInv, TypeOK, MetaFile
<1>4. /\ uploads' = [uploads EXCEPT ![u] = v]
      /\ meta' = [meta EXCEPT !.by = u, !.len = LaterOf(meta.len, uploads[u].size)]
      /\ newest' = IF uploads[u].alone THEN u ELSE newest
      /\ UNCHANGED <<files, reader, faults, crashes>>
  BY DEF WriteMeta
<1> HIDE DEF v
<1>5. meta' \in MetaFile /\ meta'.by = u /\ meta'.len = LaterOf(meta.len, uploads[u].size)
  <2>1. LaterOf(meta.len, uploads[u].size) \in Nat
    BY <1>3 DEF LaterOf
  <2> PICK len \in Nat : len = LaterOf(meta.len, uploads[u].size)
    BY <2>1
  <2>2. meta' = [meta EXCEPT !.by = u, !.len = len]
    BY <1>4
  <2>3. meta \in MetaFile /\ u \in Nat
    BY <1>1 DEF IInv, TypeOK
  <2>4. meta' \in MetaFile /\ meta'.by = u /\ meta'.len = len
    BY <2>2, <2>3 DEF MetaFile
  <2> QED
    BY <2>4
<1>6. /\ uploads' \in Seq(Request) /\ Len(uploads') = Len(uploads) /\ uploads'[u] = v
      /\ \A w \in 1 .. Len(uploads) : w # u => uploads'[w] = uploads[w]
  BY <1>2, <1>4, UploadChanged DEF IInv
<1>7. \A w \in 1 .. Len(uploads) :
         /\ uploads'[w].ext = uploads[w].ext /\ uploads'[w].size = uploads[w].size
         /\ uploads'[w].alone = uploads[w].alone
         /\ Placed(w)' = Placed(w) /\ (Ended(w)' <=> Ended(w) \/ w = u)
         /\ files'[uploads'[w].ext] = NamedFile(w)
  BY <1>1, <1>2, <1>4, <1>6 DEF Placed, Ended, NamedFile
<1>8. Placed(u) /\ ~Ended(u) /\ u > newest /\ NamedFile(u).by # 0 /\ NamedFile(u).by >= newest
  BY <1>1 DEF IInv, NothingGoesBack, FilesAreThere, Placed, Ended
<1>9. uploads[u].alone =>
         /\ \A w \in 1 .. Len(uploads) : ~Ended(w) => w = u
         /\ NamedFile(u).by = u
         /\ u = Len(uploads)
  <2> SUFFICES ASSUME uploads[u].alone
               PROVE  /\ \A w \in 1 .. Len(uploads) : ~Ended(w) => w = u
                      /\ NamedFile(u).by = u
                      /\ u = Len(uploads)
    OBVIOUS
  <2> QED
    BY <1>1, <1>8 DEF IInv, LastAlone
<1>10. TypeOK'
  BY <1>1, <1>4, <1>5, <1>6 DEF IInv, TypeOK
<1>11. FilesAreWhole' /\ FilesAreThere'
  BY <1>1, <1>4, <1>5, <1>6, <1>7, <1>8
     DEF IInv, FilesAreWhole, FilesAreThere, ServedWhole, NamedFile
<1>12. LastAlone'
  BY <1>1, <1>2, <1>3, <1>4, <1>5, <1>6, <1>7 DEF IInv, LastAlone, NamedFile, LaterOf, Ended
<1>13. NothingGoesBack'
  BY <1>1, <1>4, <1>5, <1>6, <1>7, <1>8, <1>9 DEF IInv, TypeOK, NothingGoesBack, NamedFile,
     Download
<1> QED
  BY <1>10, <1>11, <1>12, <1>13 DEF IInv

(* A download touches nothing but itself: what a step of it has to show.    *)
LEMMA DownloadStep ==
    ASSUME IInv, NEW r \in Readers, NEW d \in Download,
           reader' = [reader EXCEPT ![r] = d],
           d.since <= newest,
           d.pc \in {"named", "found"} =>
               /\ d.name \in 1 .. Len(uploads) /\ NamedFile(d.name).by # 0
               /\ NamedFile(d.name).by >= d.since,
           d.pc = "served" =>
               /\ d.content.by # 0 /\ d.content.chunks = Chunks
               /\ d.content.by >= d.since,
           UNCHANGED <<files, meta, uploads, newest, faults, crashes>>
    PROVE  IInv'
<1>1. TypeOK'
  BY DEF IInv, TypeOK
<1>2. \A q \in Readers : reader'[q] = IF q = r THEN d ELSE reader[q]
  BY DEF IInv, TypeOK
<1>3. FilesAreWhole' /\ LastAlone'
  BY DEF IInv, FilesAreWhole, LastAlone, Ended, Placed, NamedFile
<1>4. FilesAreThere'
  BY <1>2 DEF IInv, FilesAreThere, ServedWhole, Placed, NamedFile
<1>5. NothingGoesBack'
  BY <1>2 DEF IInv, NothingGoesBack, Ended, Placed, NamedFile
<1> QED
  BY <1>1, <1>3, <1>4, <1>5 DEF IInv

LEMMA ReadStep ==
    ASSUME IInv, NEW r \in Readers, Read(r)
    PROVE  IInv'
<1>1. reader[r] \in Download /\ newest \in Nat /\ 0 <= newest
  BY DEF IInv, TypeOK
<1>2. NoFile \in Content
  BY DEF NoFile, Content
<1>3. CASE ReadMeta(r)
  <2> DEFINE d == [Idle EXCEPT !.pc = IF ~meta.exists THEN "404"
                                      ELSE IF ~Readable THEN "500" ELSE "named",
                               !.name = IF Readable THEN meta.by ELSE 0,
                               !.since = newest]
  <2>1. meta.by \in 0 .. Len(uploads) /\ Len(uploads) \in Nat
    BY DEF IInv, TypeOK
  <2>2. d \in Download /\ d.since = newest
    <3> PICK pc, name : /\ pc = IF ~meta.exists THEN "404"
                               ELSE IF ~Readable THEN "500" ELSE "named"
                        /\ name = IF Readable THEN meta.by ELSE 0
      OBVIOUS
    <3>1. d = [Idle EXCEPT !.pc = pc, !.name = name, !.since = newest]
      OBVIOUS
    <3> HIDE DEF d
    <3>2. d = [pc |-> pc, name |-> name, content |-> NoFile, since |-> newest]
      BY <3>1 DEF Idle
    <3>3. pc \in {"404", "500", "named"} /\ name \in Nat
      BY <2>1
    <3> QED
      BY <1>1, <1>2, <3>2, <3>3 DEF Download
  <2>3. d.pc \notin {"found", "served"} /\ (d.pc = "named" => meta.by # 0 /\ d.name = meta.by)
    BY DEF Readable, Idle
  <2>4. reader' = [reader EXCEPT ![r] = d] /\ UNCHANGED <<files, meta, uploads, newest, faults, crashes>>
    BY <1>3 DEF ReadMeta
  <2> HIDE DEF d
  <2>5. meta.by # 0 => NamedFile(meta.by).by # 0 /\ NamedFile(meta.by).by >= newest
    BY DEF IInv, FilesAreThere, NothingGoesBack
  <2>6. d.pc \in {"named", "found"} =>
           /\ d.name \in 1 .. Len(uploads) /\ NamedFile(d.name).by # 0
           /\ NamedFile(d.name).by >= d.since
    BY <2>1, <2>2, <2>3, <2>5
  <2>7. d.since <= newest
    BY <1>1, <2>2
  <2> QED
    BY <2>2, <2>3, <2>4, <2>6, <2>7, DownloadStep
<1>4. CASE FindFile(r)
  <2> DEFINE d == [reader[r] EXCEPT !.pc =
                      IF NamedFile(reader[r].name).by = 0 THEN "404" ELSE "found"]
  <2>1. /\ d \in Download /\ d.since = reader[r].since /\ d.name = reader[r].name
        /\ d.pc # "served"
    BY <1>1 DEF Download
  <2>2. /\ reader' = [reader EXCEPT ![r] = d]
        /\ UNCHANGED <<files, meta, uploads, newest, faults, crashes>>
    BY <1>4 DEF FindFile
  <2> HIDE DEF d
  <2>3. d.since <= newest
    BY <2>1 DEF IInv, NothingGoesBack
  <2>4. /\ d.name \in 1 .. Len(uploads) /\ NamedFile(d.name).by # 0
        /\ NamedFile(d.name).by >= d.since
    BY <1>4, <2>1 DEF FindFile, IInv, FilesAreThere, NothingGoesBack
  <2> QED
    BY <2>1, <2>2, <2>3, <2>4, DownloadStep
<1>5. CASE Serve(r)
  <2> DEFINE file == NamedFile(reader[r].name)
             d == [reader[r] EXCEPT !.pc = "served", !.content = file]
  <2>1. /\ reader[r].name \in 1 .. Len(uploads)
        /\ file.by # 0 /\ file.by >= reader[r].since
    BY <1>5 DEF Serve, IInv, FilesAreThere, NothingGoesBack
  <2>2. uploads[reader[r].name].ext \in Exts
    BY <2>1, UploadType DEF IInv, TypeOK, Request
  <2>3. file \in Content /\ file.chunks = Chunks
    BY <2>1, <2>2 DEF IInv, TypeOK, FilesAreWhole, NamedFile
  <2> HIDE DEF file
  <2>4. d \in Download /\ d.since = reader[r].since /\ d.pc = "served" /\ d.content = file
    BY <1>1, <2>3 DEF Download
  <2>5. /\ reader' = [reader EXCEPT ![r] = d]
        /\ UNCHANGED <<files, meta, uploads, newest, faults, crashes>>
    BY <1>5 DEF Serve, file
  <2> HIDE DEF d
  <2> QED
    BY <2>1, <2>3, <2>4, <2>5, DownloadStep DEF IInv, NothingGoesBack
<1>6. CASE EndDownload(r)
  <2>1. Idle \in Download /\ Idle.since = 0 /\ Idle.pc = "idle"
    BY <1>2 DEF Idle, Download
  <2> QED
    BY <1>1, <1>6, <2>1, DownloadStep DEF EndDownload
<1> QED
  BY <1>3, <1>4, <1>5, <1>6 DEF Read

(* The process stops: no upload is under way any more, and no download. *)
LEMMA CrashStep ==
    ASSUME IInv, Crash
    PROVE  IInv'
<1> PICK n : n = Len(uploads)
  OBVIOUS
<1>1. n \in Nat /\ uploads \in Seq(Request) /\ DOMAIN uploads = 1 .. n
  BY DEF IInv, TypeOK
<1>2. \A u \in 1 .. n : uploads[u] \in Request
  BY <1>1
<1>3. /\ uploads' = [u \in 1 .. n |-> IF Ended(u) THEN uploads[u]
                                      ELSE [uploads[u] EXCEPT !.pc = "failed"]]
      /\ reader' = [r \in Readers |-> Idle]
      /\ UNCHANGED <<files, meta, newest, faults>> /\ crashes' = crashes + 1
  BY <1>1 DEF Crash
<1>4. \A u \in 1 .. n : /\ uploads'[u] \in Request
                        /\ uploads'[u].ext = uploads[u].ext
                        /\ uploads'[u].size = uploads[u].size
                        /\ uploads'[u].alone = uploads[u].alone
                        /\ uploads'[u].pc \in {"done", "failed"}
                        /\ uploads'[u].pc = "done" => uploads[u].pc = "done"
  BY <1>2, <1>3 DEF Request, Ended
<1>5. uploads' \in Seq(Request) /\ Len(uploads') = n
  BY <1>1, <1>3, <1>4
<1>6. \A u \in 1 .. n : /\ Ended(u)' /\ (Placed(u)' => Placed(u))
                        /\ NamedFile(u)' = NamedFile(u)
  BY <1>3, <1>4 DEF Ended, Placed, NamedFile
<1>7. Idle \in Download /\ Idle.since = 0 /\ Idle.pc = "idle"
  BY DEF Idle, Download, NoFile, Content
<1>8. TypeOK'
  <2>1. reader' \in [Readers -> Download]
    BY <1>3, <1>7
  <2> QED
    BY <1>3, <1>5, <2>1 DEF IInv, TypeOK
<1>9. FilesAreWhole'
  BY <1>3, <1>5 DEF IInv, FilesAreWhole
<1>10. FilesAreThere'
  BY <1>1, <1>3, <1>4, <1>5, <1>6, <1>7 DEF IInv, TypeOK, FilesAreThere, ServedWhole, NamedFile
<1>11. LastAlone'
  BY <1>1, <1>3, <1>4, <1>5, <1>6 DEF IInv, LastAlone
<1>12. NothingGoesBack'
  BY <1>1, <1>3, <1>4, <1>5, <1>6, <1>7 DEF IInv, TypeOK, NothingGoesBack, NamedFile
<1> QED
  BY <1>8, <1>9, <1>10, <1>11, <1>12 DEF IInv

(* Every step of the specification keeps the invariant. *)
LEMMA StepIInv == IInv /\ [Next]_vars => IInv'
<1> SUFFICES ASSUME IInv, [Next]_vars
             PROVE  IInv'
  OBVIOUS
<1>1. ASSUME NEW u \in DOMAIN uploads, Upload(u)
      PROVE  IInv'
  BY <1>1, CopyOrFailStep, ReplaceStep, OpenMetaStep, WriteMetaStep DEF Upload
<1>2. CASE UNCHANGED vars
  BY <1>2 DEF vars, IInv, TypeOK, FilesAreWhole, FilesAreThere, LastAlone, NothingGoesBack,
     ServedWhole, Ended, Placed, NamedFile
<1> QED
  BY <1>1, <1>2, BeginStep, ReadStep, CrashStep DEF Next

-----------------------------------------------------------------------------
(* The directory, the uploads and the downloads are typed in every          *)
(* reachable state.                                                         *)
THEOREM TypeCorrect == Spec => []TypeOK
<1>1. IInv => TypeOK
  BY DEF IInv
<1> QED
  BY InitIInv, StepIInv, <1>1, PTL DEF Spec

(* No visitor is ever served a part of a file or none where one was named.  *)
THEOREM DownloadsAreWhole == Spec => []ServedWhole
<1>1. IInv => ServedWhole
  BY DEF IInv, FilesAreThere
<1> QED
  BY InitIInv, StepIInv, <1>1, PTL DEF Spec

(* The file a readable record names is always there, and stays until the    *)
(* visitor who read the record has been served.                             *)
THEOREM RecordsNameFiles == Spec => []NamedFileIsFound
<1>1. IInv => NamedFileIsFound
  BY DEF IInv, FilesAreThere, NamedFileIsFound, Readable
<1> QED
  BY InitIInv, StepIInv, <1>1, PTL DEF Spec

(* An upload that was alone leaves its own record beside its own file,      *)
(* whatever it found there.                                                 *)
THEOREM LoneUploadsRepair == Spec => []CompletedUploadIsInPlace
<1>1. IInv => CompletedUploadIsInPlace
  <2> SUFFICES ASSUME IInv, uploads # <<>>, uploads[Len(uploads)].pc = "done",
                      uploads[Len(uploads)].alone
               PROVE  /\ Readable /\ meta.by = Len(uploads)
                      /\ NamedFile(meta.by) = [by |-> Len(uploads), chunks |-> Chunks]
    BY DEF CompletedUploadIsInPlace
  <2>1. Len(uploads) \in Nat /\ Len(uploads) # 0
    BY DEF IInv, TypeOK
  <2> QED
    BY <2>1 DEF IInv, LastAlone, Placed, Readable
<1> QED
  BY InitIInv, StepIInv, <1>1, PTL DEF Spec

(* A visitor never gets anything older than the newest upload that was      *)
(* completed alone before the download began.                               *)
THEOREM DownloadsAreFresh == Spec => []DownloadIsFresh
<1>1. IInv => DownloadIsFresh
  BY DEF IInv, NothingGoesBack, DownloadIsFresh
<1> QED
  BY InitIInv, StepIInv, <1>1, PTL DEF Spec
=============================================================================
