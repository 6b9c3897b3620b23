------------------------------- MODULE Upload -------------------------------
(***************************************************************************)
(* The transfer of one file to a worker (transport.go): UploadFileCached   *)
(* on the sender, handleHave and handleUpload on the worker, for all the   *)
(* requests that carry the same file name.  The worker writes to           *)
(* "<name>.part" and renames it to <name> in its data directory, where     *)
(* PixInsight reads it.                                                    *)
(*                                                                         *)
(* Files are inodes: os.Create truncates the one ".part" names if there is *)
(* one, a rename moves the name, and an open descriptor keeps writing to   *)
(* its inode wherever the names point.                                     *)
(***************************************************************************)
EXTENDS Naturals

CONSTANTS Uploads,    \* the calls of UploadFileCached for this name
          Contents,   \* what the senders' files can hold
          Content,    \* Content[u]: what the sender of u has read and hashed
          Packed,     \* the uploads sent compressed (--compress)
          None        \* no file

ASSUME UploadAssumption ==
    /\ Content \in [Uploads -> Contents]
    /\ Packed \subseteq Uploads
    /\ None \notin Uploads

VARIABLES
    pc,         \* where each call is
    inode,      \* the inode each upload's descriptor writes to
    data,       \* what each inode holds; an inode is named by its creator
    part,       \* the inode <name>.part names
    dest,       \* the inode <name> names
    overlapped  \* two handlers were between os.Create and their end at once

uploadVars == <<pc, inode, data, part, dest, overlapped>>

(* mix: the contents written since the last truncation; opener: who        *)
(* truncated last; whole: that one has written all of its bytes.           *)
Empty(u) == [mix |-> {}, opener |-> u, whole |-> FALSE]

Wrote(d, u, last) ==
    [d EXCEPT !.mix = @ \cup {Content[u]}, !.whole = @ \/ (last /\ d.opener = u)]

Holds(i, c) == i # None /\ data[i].whole /\ data[i].mix = {c}

UploadInit ==
    /\ pc = [u \in Uploads |-> "new"]
    /\ inode = [u \in Uploads |-> None]
    /\ data = [u \in Uploads |-> Empty(u)]
    /\ part = None /\ dest = None
    /\ overlapped = FALSE

Goto(u, from, to) ==
    /\ pc[u] = from
    /\ pc' = [pc EXCEPT ![u] = to]

Open(u) == pc[u] \in {"write", "check", "rename"}

-----------------------------------------------------------------------------
(* HasFile: the worker hashes <name>; any failure counts as "no". *)

AlreadyHeld(u) ==
    /\ Holds(dest, Content[u])
    /\ Goto(u, "new", "held")
    /\ UNCHANGED <<inode, data, part, dest, overlapped>>

NotHeld(u) ==
    /\ Goto(u, "new", "upload")
    /\ UNCHANGED <<inode, data, part, dest, overlapped>>

(* The request does not arrive, is refused, or a packed body is unreadable. *)
Refused(u) ==
    /\ Goto(u, "upload", "failed")
    /\ UNCHANGED <<inode, data, part, dest, overlapped>>

-----------------------------------------------------------------------------
(* handleUpload. *)

\* Defect: the body goes straight to its final name.
CreateInPlace(u) ==
    LET i == IF dest = None THEN u ELSE dest IN
    /\ Goto(u, "upload", "write")
    /\ dest' = i /\ part' = i
    /\ inode' = [inode EXCEPT ![u] = i]
    /\ data' = [data EXCEPT ![i] = Empty(u)]
    /\ UNCHANGED overlapped

Create(u) ==
    LET i == IF part = None THEN u ELSE part IN
    /\ Goto(u, "upload", "write")
    /\ part' = i
    /\ inode' = [inode EXCEPT ![u] = i]
    /\ data' = [data EXCEPT ![i] = Empty(u)]
    /\ overlapped' = (overlapped \/ \E v \in Uploads \ {u} : Open(v))
    /\ UNCHANGED dest

WriteSome(u) ==
    /\ pc[u] = "write"
    /\ data' = [data EXCEPT ![inode[u]] = Wrote(@, u, FALSE)]
    /\ UNCHANGED <<pc, inode, part, dest, overlapped>>

WriteLast(u) ==
    /\ Goto(u, "write", "check")
    /\ data' = [data EXCEPT ![inode[u]] = Wrote(@, u, TRUE)]
    /\ UNCHANGED <<inode, part, dest, overlapped>>

Remove(u) ==
    /\ part' = None
    /\ UNCHANGED <<inode, data, dest, overlapped>>

\* Defect: the error return of the copy skips os.Remove.
CopyFailsKeeping(u) ==
    /\ u \notin Packed
    /\ Goto(u, "write", "failed")
    /\ UNCHANGED <<inode, data, part, dest, overlapped>>

(* The body ends early or a write fails: io.Copy returns an error. *)
CopyFails(u) ==
    /\ u \notin Packed
    /\ Goto(u, "write", "failed")
    /\ Remove(u)

(* os.WriteFile fails: the handler returns, ".part" stays. *)
WriteFileFails(u) ==
    /\ u \in Packed
    /\ Goto(u, "write", "failed")
    /\ UNCHANGED <<inode, data, part, dest, overlapped>>

(* The checksum is that of the bytes received, not of the file. *)
Matches(u) ==
    /\ Goto(u, "check", "rename")
    /\ UNCHANGED <<inode, data, part, dest, overlapped>>

Mismatch(u) ==
    /\ Goto(u, "check", "failed")
    /\ Remove(u)

Rename(u) ==
    /\ part # None
    /\ Goto(u, "rename", "stored")
    /\ dest' = part
    /\ part' = None
    /\ UNCHANGED <<inode, data, overlapped>>

(* ".part" is gone, or the rename is refused. *)
RenameFails(u) ==
    /\ Goto(u, "rename", "failed")
    /\ Remove(u)

-----------------------------------------------------------------------------
UploadNext ==
    \/ \E u \in Uploads :
          \/ AlreadyHeld(u) \/ NotHeld(u) \/ Refused(u) \/ Create(u)
          \/ WriteSome(u) \/ WriteLast(u) \/ CopyFails(u) \/ WriteFileFails(u)
          \/ Matches(u) \/ Mismatch(u) \/ Rename(u) \/ RenameFails(u)
    \/ (\A u \in Uploads : pc[u] \in {"held", "stored", "failed"}) /\ UNCHANGED uploadVars

UploadSpec == UploadInit /\ [][UploadNext]_uploadVars
-----------------------------------------------------------------------------
OrNone == Uploads \cup {None}

UploadTypeOK ==
    /\ pc \in [Uploads -> {"new", "upload", "write", "check", "rename", "held",
                           "stored", "failed"}]
    /\ inode \in [Uploads -> OrNone]
    /\ data \in [Uploads -> [mix : SUBSET Contents, opener : Uploads, whole : BOOLEAN]]
    /\ part \in OrNone /\ dest \in OrNone
    /\ overlapped \in BOOLEAN

(* <name> never shows PixInsight, a HasFile or a download a half-written   *)
(* or mixed file, as long as no two uploads of the name overlap: it holds  *)
(* all of the content of an upload that was stored.                        *)
StoredFileWhole ==
    ~overlapped /\ dest # None =>
        \E u \in Uploads : pc[u] = "stored" /\ Holds(dest, Content[u])

(* "Nothing is kept on any failure" (transport.go:181) but for one branch: *)
(* with no upload under way, a ".part" file is one that a failed write of  *)
(* a packed upload left, however the uploads of the name overlapped.       *)
KeptOnlyByPackedFailure ==
    (\A u \in Uploads : ~Open(u)) /\ part # None
        => \E u \in Packed : pc[u] = "failed"
=============================================================================
