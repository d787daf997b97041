----------------------------- MODULE BlobStore -----------------------------
(***************************************************************************)
(* The content-addressed blob store (crates/db/src/storage.rs): its rows   *)
(* in content_blobs and content_references, the file under objects/, and   *)
(* the temporary files a put writes first.  The model follows one          *)
(* checksum; blobs of different bytes share no row, path or temporary      *)
(* name.                                                                   *)
(*                                                                         *)
(* A client is one running operation of the application: an import, export *)
(* or rendition that puts the bytes and then references them, or a         *)
(* collection (the worker's collect_blobs, or the deletions that follow an *)
(* unreference).  Each statement and each file system call is a step; the   *)
(* DELETE of a collection is two, its check and its write, because           *)
(* PostgreSQL lets other statements commit in between.                      *)
(***************************************************************************)
EXTENDS FiniteSets

CONSTANTS
  Clients,    \* concurrent operations on this checksum
  Referrers,     \* the (owner_type, owner_id) pairs that may reference it
  Processes,  \* operating system processes: servers, workers, the CLI
  ProcessOf,  \* the process each client runs in
  Postgres,   \* the backend: PostgreSQL, else SQLite
  Crashes     \* whether a process may be killed

ASSUME BlobAssumption ==
  /\ ProcessOf \in [Clients -> Processes]
  /\ Crashes \in BOOLEAN /\ Postgres \in BOOLEAN
  /\ {"none", "part", "whole"} \cap Clients = {}

VARIABLES
  row,   \* whether content_blobs holds the checksum
  refs,  \* the owners in content_references
  file,  \* what is at the blob's path
  tmp,   \* what is at each process's temporary path for this checksum
  pc,    \* where each client is
  owner, \* for whom a put will be referenced
  robbed \* history: remove_file met bytes that were put after its DELETE

blobVars == <<row, refs, file, tmp, pc, owner, robbed>>

(* Bytes on disk.  A client's name stands for a file it truncated last and   *)
(* is still writing; "part" is such a file whose writer died.               *)
Contents == {"none", "part", "whole"} \cup Clients

Stages ==
  {"idle", "stat", "open", "write", "rename", "insert", "reference", "delete", "remove"}

BlobTypeOK ==
  /\ row \in BOOLEAN
  /\ refs \subseteq Referrers
  /\ file \in Contents
  /\ tmp \in [Processes -> Contents]
  /\ pc \in [Clients -> Stages]
  /\ owner \in [Clients -> Referrers]
  /\ robbed \in BOOLEAN

BlobInit ==
  /\ row = FALSE
  /\ refs = {}
  /\ file = "none"
  /\ tmp = [p \in Processes |-> "none"]
  /\ pc = [c \in Clients |-> "idle"]
  /\ owner \in [Clients -> Referrers]
  /\ robbed = FALSE

(* SQLite has one writer at a time: nobody writes to the database between a   *)
(* DELETE's check and its write.                                            *)
Unlocked == Postgres \/ \A c \in Clients : pc[c] # "delete"

-----------------------------------------------------------------------------
(* put_with_retention *)

(* stat: is there a row? *)
StartPut(c, o) ==
  /\ pc[c] = "idle"
  /\ owner' = [owner EXCEPT ![c] = o]
  /\ pc' = [pc EXCEPT ![c] = IF row THEN "stat" ELSE "open"]
  /\ UNCHANGED <<row, refs, file, tmp, robbed>>

(* path.exists(): with a row and a file the put is a no-op. *)
LookAtFile(c) ==
  /\ pc[c] = "stat"
  /\ pc' = [pc EXCEPT ![c] = IF file # "none" THEN "reference" ELSE "open"]
  /\ UNCHANGED <<row, refs, file, tmp, owner, robbed>>

(* Mutant of OpenTemporary: the bytes go straight to the final path. *)
OpenFinal(c) ==
  /\ pc[c] = "open"
  /\ file' = c
  /\ tmp' = [tmp EXCEPT ![ProcessOf[c]] = c]
  /\ pc' = [pc EXCEPT ![c] = "write"]
  /\ UNCHANGED <<row, refs, owner, robbed>>

(* Mutant of OpenTemporary: the row is claimed before the bytes are there. *)
OpenWithRow(c) ==
  /\ pc[c] = "open" /\ Unlocked
  /\ row' = TRUE
  /\ tmp' = [tmp EXCEPT ![ProcessOf[c]] = c]
  /\ pc' = [pc EXCEPT ![c] = "write"]
  /\ UNCHANGED <<refs, file, owner, robbed>>

(* fs::write opens the temporary file and truncates it; the name holds the   *)
(* checksum and the process id only.                                        *)
OpenTemporary(c) ==
  /\ pc[c] = "open"
  /\ tmp' = [tmp EXCEPT ![ProcessOf[c]] = c]
  /\ pc' = [pc EXCEPT ![c] = "write"]
  /\ UNCHANGED <<row, refs, file, owner, robbed>>

Finished(content, c) == IF content = c THEN "whole" ELSE content

(* fs::write has written every byte, wherever its file has moved since. *)
WriteBytes(c) ==
  /\ pc[c] = "write"
  /\ tmp' = [p \in Processes |-> Finished(tmp[p], c)]
  /\ file' = Finished(file, c)
  /\ pc' = [pc EXCEPT ![c] = "rename"]
  /\ UNCHANGED <<row, refs, owner, robbed>>

(* rename replaces the file at the path; without a temporary it fails, and   *)
(* the put with it.                                                         *)
Rename(c) ==
  LET p == ProcessOf[c] IN
  /\ pc[c] = "rename"
  /\ IF tmp[p] = "none"
     THEN pc' = [pc EXCEPT ![c] = "idle"] /\ UNCHANGED <<file, tmp, robbed>>
     ELSE /\ pc' = [pc EXCEPT ![c] = "insert"]
          /\ file' = tmp[p] /\ robbed' = FALSE
          /\ tmp' = [tmp EXCEPT ![p] = "none"]
  /\ UNCHANGED <<row, refs, owner>>

(* INSERT ... ON CONFLICT (checksum) DO NOTHING *)
InsertRow(c) ==
  /\ pc[c] = "insert" /\ Unlocked
  /\ row' = TRUE
  /\ pc' = [pc EXCEPT ![c] = "reference"]
  /\ UNCHANGED <<refs, file, tmp, owner, robbed>>

(* reference: the foreign key refuses a reference to a blob without a row,   *)
(* and the caller's operation fails.                                        *)
Reference(c) ==
  /\ pc[c] = "reference" /\ Unlocked
  /\ refs' = IF row THEN refs \cup {owner[c]} ELSE refs
  /\ pc' = [pc EXCEPT ![c] = "idle"]
  /\ UNCHANGED <<row, file, tmp, owner, robbed>>

-----------------------------------------------------------------------------
(* unreference *)
Unreference(o) ==
  /\ o \in refs /\ Unlocked
  /\ refs' = refs \ {o}
  /\ UNCHANGED <<row, file, tmp, pc, owner, robbed>>

(* Mutant of CheckReferences: delete by age, without asking. *)
CheckRowOnly(c) ==
  /\ pc[c] = "idle" /\ Unlocked
  /\ row
  /\ pc' = [pc EXCEPT ![c] = "delete"]
  /\ UNCHANGED <<row, refs, file, tmp, owner, robbed>>

(* delete_if_unreferenced: the DELETE finds the row and no reference to it.   *)
(* On PostgreSQL what it finds is the statement's snapshot.                  *)
CheckReferences(c) ==
  /\ pc[c] = "idle" /\ Unlocked
  /\ row /\ refs = {}
  /\ pc' = [pc EXCEPT ![c] = "delete"]
  /\ UNCHANGED <<row, refs, file, tmp, owner, robbed>>

(* The row goes, and by ON DELETE CASCADE every reference that came after the *)
(* check.  Another DELETE that had found the row removes nothing.            *)
DeleteRow(c) ==
  /\ pc[c] = "delete"
  /\ row' = FALSE /\ refs' = {}
  /\ pc' = [d \in Clients |-> IF d = c THEN "remove"
                             ELSE IF pc[d] = "delete" THEN "idle" ELSE pc[d]]
  /\ UNCHANGED <<file, tmp, owner, robbed>>

(* delete_if_unreferenced, after the commit: a missing file is fine. *)
RemoveFile(c) ==
  /\ pc[c] = "remove"
  /\ file' = "none"
  /\ robbed' = (robbed \/ row \/ \E d \in Clients : pc[d] = "insert")
  /\ pc' = [pc EXCEPT ![c] = "idle"]
  /\ UNCHANGED <<row, refs, tmp, owner>>

(* A process is killed.  Its successor has another process id, so a leftover *)
(* temporary is never opened again.                                         *)
Crash(p) ==
  LET Died == {c \in Clients : ProcessOf[c] = p} IN
  /\ Crashes
  /\ pc' = [c \in Clients |-> IF c \in Died THEN "idle" ELSE pc[c]]
  /\ file' = IF file \in Died THEN "part" ELSE file
  /\ tmp' = [tmp EXCEPT ![p] = "none"]
  /\ UNCHANGED <<row, refs, owner, robbed>>

-----------------------------------------------------------------------------
Busy(c) ==
  \/ LookAtFile(c) \/ OpenTemporary(c) \/ WriteBytes(c) \/ Rename(c)
  \/ InsertRow(c) \/ Reference(c) \/ CheckReferences(c) \/ DeleteRow(c) \/ RemoveFile(c)

BlobNext ==
  \/ \E c \in Clients : Busy(c) \/ \E o \in Referrers : StartPut(c, o)
  \/ \E o \in Referrers : Unreference(o)
  \/ \E p \in Processes : Crash(p)

BlobSpec == BlobInit /\ [][BlobNext]_blobVars

-----------------------------------------------------------------------------
(* Properties *)

(* A row without its file is what get reports as lost data.  It has one       *)
(* cause, a remove_file that comes so long after its DELETE that it meets bytes *)
(* put again since: no kill, failed rename, shared temporary or repeated put    *)
(* leaves a row without bytes (the order of put and of the deletion).         *)
BytesAreLostOnlyToALateRemoval == row /\ file = "none" => robbed

(* Reading the blob's path finds no bytes or all of them, though writers     *)
(* crash in the middle: the point of writing beside it and renaming.         *)
NeverHalfWritten == file \in {"none", "whole"}

(* On SQLite a reference goes only when its owner drops it, never because a   *)
(* collector removed the blob: at most one reference goes in a step, and the  *)
(* row stays.  On PostgreSQL a reference that commits between the DELETE's    *)
(* snapshot and its write goes with the row.                                 *)
ReferenceOutlivesCollection ==
  [][refs \ refs' # {} => row' /\ Cardinality(refs \ refs') = 1]_blobVars

-----------------------------------------------------------------------------
(* What the code's comments say, and the code does not keep.                 *)

(* "A reference that arrives after the check finds a blob row that is        *)
(* already gone and must store the bytes again rather than resurrect a file  *)
(* mid-delete": the bytes stored again are removed by the first deletion.    *)
ReferencedHasFile == refs # {} => file # "none"

=============================================================================
