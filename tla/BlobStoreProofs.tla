-------------------------- MODULE BlobStoreProofs --------------------------
(***************************************************************************)
(* Proofs about BlobStore, for any number of operations, owners and         *)
(* processes: on SQLite collection never takes a reference along; on either *)
(* backend a row loses its bytes only to a late remove_file, and the blob's *)
(* path shows half a file only if two puts of one process overlap.          *)
(***************************************************************************)
EXTENDS BlobStore, FiniteSetTheorems, TLAPS

LEMMA FinishedContent ==
  ASSUME NEW x \in Contents, NEW c \in Clients
  PROVE  Finished(x, c) \in Contents
BY DEF Finished, Contents

(* Every variable keeps its range. *)
LEMMA BlobTypeStep == BlobTypeOK /\ [BlobNext]_blobVars => BlobTypeOK'
<1> SUFFICES ASSUME BlobTypeOK, [BlobNext]_blobVars PROVE BlobTypeOK'
  OBVIOUS
<1> USE BlobAssumption DEF BlobTypeOK, Stages
<1>1. ASSUME NEW c \in Clients, NEW o \in Referrers, StartPut(c, o) PROVE BlobTypeOK'
  BY <1>1 DEF StartPut
<1>2. ASSUME NEW c \in Clients, LookAtFile(c) PROVE BlobTypeOK'
  BY <1>2 DEF LookAtFile
<1>3. ASSUME NEW c \in Clients, OpenTemporary(c) PROVE BlobTypeOK'
  BY <1>3 DEF OpenTemporary, Contents
<1>4. ASSUME NEW c \in Clients, WriteBytes(c) PROVE BlobTypeOK'
  BY <1>4, FinishedContent DEF WriteBytes
<1>5. ASSUME NEW c \in Clients, Rename(c) PROVE BlobTypeOK'
  <2>1. CASE tmp[ProcessOf[c]] = "none"
    BY <1>5, <2>1 DEF Rename
  <2>2. CASE tmp[ProcessOf[c]] # "none"
    <3>1. file' \in Contents /\ tmp' \in [Processes -> Contents]
      BY <1>5, <2>2 DEF Rename, Contents
    <3>2. /\ row' \in BOOLEAN /\ refs' \subseteq Referrers
          /\ pc' \in [Clients -> Stages] /\ owner' \in [Clients -> Referrers]
      BY <1>5, <2>2 DEF Rename
    <3>3. robbed' \in BOOLEAN
      BY <1>5, <2>2 DEF Rename
    <3> QED
      BY <3>1, <3>2, <3>3
  <2> QED
    BY <2>1, <2>2
<1>6. ASSUME NEW c \in Clients, InsertRow(c) PROVE BlobTypeOK'
  BY <1>6 DEF InsertRow
<1>7. ASSUME NEW c \in Clients, Reference(c) PROVE BlobTypeOK'
  BY <1>7 DEF Reference
<1>8. ASSUME NEW c \in Clients, RemoveFile(c) PROVE BlobTypeOK'
  BY <1>8 DEF RemoveFile, Contents
<1>9. ASSUME NEW c \in Clients, CheckReferences(c) \/ DeleteRow(c) PROVE BlobTypeOK'
  BY <1>9 DEF CheckReferences, DeleteRow
<1>10. ASSUME NEW o \in Referrers, Unreference(o) PROVE BlobTypeOK'
  BY <1>10 DEF Unreference
<1>11. ASSUME NEW p \in Processes, Crash(p) PROVE BlobTypeOK'
  BY <1>11 DEF Crash, Contents
<1>12. CASE UNCHANGED blobVars
  BY <1>12 DEF blobVars
<1> QED
  BY <1>1, <1>2, <1>3, <1>4, <1>5, <1>6, <1>7, <1>8, <1>9, <1>10, <1>11, <1>12 DEF BlobNext, Busy

(* BlobTypeOK holds in every reachable state of the store. *)
THEOREM BlobsTyped == BlobSpec => []BlobTypeOK
<1>1. BlobInit => BlobTypeOK
  BY DEF BlobInit, BlobTypeOK, Contents, Stages
<1> QED
  BY <1>1, BlobTypeStep, PTL DEF BlobSpec

-----------------------------------------------------------------------------
(* What DELETE found when it began is still so when it writes: the row, no   *)
(* reference to it, and no other writer of the database.                    *)
DeleteIsAlone ==
  \A c \in Clients : pc[c] = "delete" =>
    row /\ refs = {} /\ \A d \in Clients \ {c} : pc[d] # "delete"

Referenced == refs # {} => row

Collecting == BlobTypeOK /\ Referenced /\ DeleteIsAlone

LEMMA CollectingStep == ~Postgres /\ Collecting /\ [BlobNext]_blobVars => Collecting'
<1> SUFFICES ASSUME ~Postgres, Collecting, [BlobNext]_blobVars
             PROVE  Referenced' /\ DeleteIsAlone'
  BY BlobTypeStep DEF Collecting
<1> USE DEF Collecting, BlobTypeOK, Referenced, DeleteIsAlone, Unlocked
<1>1. ASSUME NEW c \in Clients,
             \/ LookAtFile(c) \/ OpenTemporary(c) \/ WriteBytes(c) \/ Rename(c)
             \/ InsertRow(c) \/ Reference(c) \/ RemoveFile(c)
      PROVE  Referenced' /\ DeleteIsAlone'
  BY <1>1 DEF LookAtFile, OpenTemporary, WriteBytes, Rename, InsertRow, Reference, RemoveFile
<1>2. ASSUME NEW c \in Clients, CheckReferences(c) PROVE Referenced' /\ DeleteIsAlone'
  BY <1>2 DEF CheckReferences
<1>3. ASSUME NEW c \in Clients, DeleteRow(c) PROVE Referenced' /\ DeleteIsAlone'
  BY <1>3 DEF DeleteRow
<1>4. ASSUME NEW c \in Clients, NEW o \in Referrers, StartPut(c, o)
      PROVE  Referenced' /\ DeleteIsAlone'
  BY <1>4 DEF StartPut
<1>5. ASSUME NEW o \in Referrers, Unreference(o) PROVE Referenced' /\ DeleteIsAlone'
  BY <1>5 DEF Unreference
<1>6. ASSUME NEW p \in Processes, Crash(p) PROVE Referenced' /\ DeleteIsAlone'
  BY <1>6 DEF Crash
<1>7. CASE UNCHANGED blobVars
  BY <1>7 DEF blobVars
<1> QED
  BY <1>1, <1>2, <1>3, <1>4, <1>5, <1>6, <1>7 DEF BlobNext, Busy

LEMMA CollectionStep ==
  Collecting /\ [BlobNext]_blobVars =>
    [refs \ refs' # {} => row' /\ Cardinality(refs \ refs') = 1]_blobVars
<1> SUFFICES ASSUME Collecting, BlobNext, refs \ refs' # {}
             PROVE  row' /\ Cardinality(refs \ refs') = 1
  BY DEF blobVars
<1>1. PICK o \in Referrers : Unreference(o)
  <2>1. \A c \in Clients : ~DeleteRow(c)
    BY DEF DeleteRow, Collecting, DeleteIsAlone
  <2>2. \A c \in Clients : ~Busy(c)
    BY <2>1 DEF Busy, LookAtFile, OpenTemporary, WriteBytes, Rename, InsertRow, Reference,
                CheckReferences, RemoveFile
  <2>3. \A c \in Clients : \A o \in Referrers : ~StartPut(c, o)
    BY DEF StartPut
  <2>4. \A p \in Processes : ~Crash(p)
    BY DEF Crash
  <2> QED
    BY <2>2, <2>3, <2>4 DEF BlobNext
<1>2. refs \ refs' = {o}
  BY <1>1 DEF Unreference
<1>3. Cardinality({o}) = 1
  BY FS_Singleton
<1> QED
  BY <1>1, <1>2, <1>3 DEF Unreference, Collecting, Referenced

(* On SQLite no step but its owner's unreference takes a reference away, and   *)
(* the row outlives that step: nothing is written between a DELETE's check    *)
(* and its write.  On PostgreSQL that is false.                             *)
THEOREM CollectionSparesReferences ==
  ASSUME ~Postgres
  PROVE  BlobSpec => ReferenceOutlivesCollection
<1>1. BlobInit => Collecting
  BY DEF BlobInit, Collecting, Referenced, DeleteIsAlone, BlobTypeOK, Contents, Stages
<1>2. Collecting /\ [BlobNext]_blobVars => Collecting'
  BY CollectingStep
<1> QED
  BY <1>1, <1>2, CollectionStep, PTL DEF BlobSpec, ReferenceOutlivesCollection

-----------------------------------------------------------------------------
(* Between its rename and its INSERT a put counts on bytes that are there, or  *)
(* on somebody having removed them.                                         *)
BytesStand ==
  /\ BlobTypeOK
  /\ BytesAreLostOnlyToALateRemoval
  /\ \A c \in Clients : pc[c] = "insert" /\ file = "none" => robbed

LEMMA BytesStep == BytesStand /\ [BlobNext]_blobVars => BytesStand'
<1> SUFFICES ASSUME BytesStand, [BlobNext]_blobVars PROVE BytesStand'
  OBVIOUS
<1>0. BlobTypeOK /\ BlobTypeOK'
  BY BlobTypeStep DEF BytesStand
<1> USE <1>0, BlobAssumption DEF BytesStand, BytesAreLostOnlyToALateRemoval, BlobTypeOK
<1>1. ASSUME NEW c \in Clients,
             LookAtFile(c) \/ OpenTemporary(c) \/ InsertRow(c) \/ Reference(c)
             \/ CheckReferences(c) \/ DeleteRow(c) \/ \E o \in Referrers : StartPut(c, o)
      PROVE  BytesStand'
  BY <1>1 DEF LookAtFile, OpenTemporary, InsertRow, Reference, CheckReferences, DeleteRow, StartPut
<1>2. ASSUME NEW c \in Clients, WriteBytes(c) PROVE BytesStand'
  BY <1>2 DEF WriteBytes, Finished
<1>3. ASSUME NEW c \in Clients, Rename(c) PROVE BytesStand'
  BY <1>3 DEF Rename
<1>4. ASSUME NEW c \in Clients, RemoveFile(c) PROVE BytesStand'
  BY <1>4 DEF RemoveFile
<1>5. ASSUME NEW o \in Referrers, Unreference(o) PROVE BytesStand'
  BY <1>5 DEF Unreference
<1>6. ASSUME NEW p \in Processes, Crash(p) PROVE BytesStand'
  BY <1>6 DEF Crash
<1>7. CASE UNCHANGED blobVars
  BY <1>7 DEF blobVars
<1> QED
  BY <1>1, <1>2, <1>3, <1>4, <1>5, <1>6, <1>7 DEF BlobNext, Busy

(* On either backend, whoever is killed and whatever shares a temporary: a    *)
(* row is without its file only because a remove_file came after a new put.   *)
THEOREM RowsKeepTheirBytes == BlobSpec => []BytesAreLostOnlyToALateRemoval
<1>1. BlobInit => BytesStand
  BY DEF BlobInit, BytesStand, BytesAreLostOnlyToALateRemoval, BlobTypeOK, Contents, Stages
<1>2. BytesStand => BytesAreLostOnlyToALateRemoval
  BY DEF BytesStand
<1> QED
  BY <1>1, <1>2, BytesStep, PTL DEF BlobSpec

-----------------------------------------------------------------------------
(* At this moment no two puts of one process are between opening their        *)
(* temporary and renaming it.  They may have been, or be later.              *)
OneWriterPerProcess ==
  \A c, d \in Clients :
    /\ ProcessOf[c] = ProcessOf[d]
    /\ pc[c] \in {"write", "rename"} /\ pc[d] \in {"write", "rename"}
    => c = d

(* Then the temporary of a put is its own from open to rename. *)
OwnTemporary ==
  \A c \in Clients :
    /\ pc[c] = "write" => tmp[ProcessOf[c]] = c
    /\ pc[c] = "rename" => tmp[ProcessOf[c]] = "whole"

Intact == BlobTypeOK /\ OwnTemporary /\ NeverHalfWritten

LEMMA IntactStep ==
  OneWriterPerProcess /\ OneWriterPerProcess' /\ Intact /\ [BlobNext]_blobVars => Intact'
<1> SUFFICES ASSUME OneWriterPerProcess, OneWriterPerProcess', Intact, [BlobNext]_blobVars
             PROVE  Intact'
  OBVIOUS
<1>0. BlobTypeOK /\ BlobTypeOK'
  BY BlobTypeStep DEF Intact
<1> USE <1>0, BlobAssumption DEF Intact, OwnTemporary, NeverHalfWritten, BlobTypeOK
<1>1. ASSUME NEW c \in Clients, NEW o \in Referrers, StartPut(c, o) PROVE Intact'
  BY <1>1 DEF StartPut
<1>2. ASSUME NEW c \in Clients, LookAtFile(c) PROVE Intact'
  BY <1>2 DEF LookAtFile
<1>3. ASSUME NEW c \in Clients, OpenTemporary(c) PROVE Intact'
  BY <1>3 DEF OpenTemporary, OneWriterPerProcess
<1>4. ASSUME NEW c \in Clients, WriteBytes(c) PROVE Intact'
  <2>1. file' = file
    BY <1>4 DEF WriteBytes, Finished
  <2>2. \A d \in Clients \ {c} : pc'[d] = pc[d] /\ (pc[d] \in {"write", "rename"} =>
                                     tmp'[ProcessOf[d]] = tmp[ProcessOf[d]])
    BY <1>4 DEF WriteBytes, Finished
  <2>3. pc'[c] = "rename" /\ tmp'[ProcessOf[c]] = "whole"
    BY <1>4 DEF WriteBytes, Finished
  <2> QED
    BY <2>1, <2>2, <2>3
<1>5. ASSUME NEW c \in Clients, Rename(c) PROVE Intact'
  BY <1>5 DEF Rename, OneWriterPerProcess
<1>6. ASSUME NEW c \in Clients, InsertRow(c) PROVE Intact'
  BY <1>6 DEF InsertRow
<1>7. ASSUME NEW c \in Clients, Reference(c) PROVE Intact'
  BY <1>7 DEF Reference
<1>8. ASSUME NEW c \in Clients, RemoveFile(c) PROVE Intact'
  BY <1>8 DEF RemoveFile
<1>9. ASSUME NEW c \in Clients, CheckReferences(c) \/ DeleteRow(c) PROVE Intact'
  BY <1>9 DEF CheckReferences, DeleteRow
<1>10. ASSUME NEW o \in Referrers, Unreference(o) PROVE Intact'
  BY <1>10 DEF Unreference
<1>11. ASSUME NEW p \in Processes, Crash(p) PROVE Intact'
  BY <1>11 DEF Crash
<1>12. CASE UNCHANGED blobVars
  BY <1>12 DEF blobVars
<1> QED
  BY <1>1, <1>2, <1>3, <1>4, <1>5, <1>6, <1>7, <1>8, <1>9, <1>10, <1>11, <1>12 DEF BlobNext, Busy

(* A reader of the blob's path sees no file or a complete one, whatever      *)
(* crashes in between, in every behaviour in which no two puts of one process *)
(* write the blob at the same time; in the others the temporary's name is     *)
(* shared, and the path may show half a file.                               *)
THEOREM PathIsNeverHalfWritten ==
  BlobSpec /\ []OneWriterPerProcess => []NeverHalfWritten
<1>1. BlobInit => Intact
  BY DEF BlobInit, Intact, BlobTypeOK, OwnTemporary, NeverHalfWritten, Contents, Stages
<1>2. OneWriterPerProcess /\ OneWriterPerProcess' /\ Intact /\ [BlobNext]_blobVars => Intact'
  BY IntactStep
<1>3. Intact => NeverHalfWritten
  BY DEF Intact
<1> QED
  BY <1>1, <1>2, <1>3, PTL DEF BlobSpec
=============================================================================
