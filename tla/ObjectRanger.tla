----------------------------- MODULE ObjectRanger -----------------------------
(***************************************************************************)
(* objectranger.ObjectRanger (src/pkg/linksharing/objectranger/ranger.go), *)
(* the ranger.Ranger through which linksharing serves an object.  New      *)
(* keeps the *uplink.Object the handler stat'ed.  Size returns that        *)
(* object's ContentLength.  Range calls DownloadObject(bucket, o.Key,      *)
(* {Offset, Length}) on the project.                                       *)
(*                                                                         *)
(* The ranger is read from one request's goroutine: Size first (for the    *)
(* Content-Length and to bound the Range header), then Range.  Meanwhile   *)
(* an upload may commit a new object under the same key.  DownloadObject   *)
(* names the object by key alone, so it reads the object the key names     *)
(* when it is called.  It fails when offset is past that object's end,     *)
(* and otherwise returns at most the bytes the object has.                 *)
(*                                                                         *)
(* An object is a record of its version and its size.  Its bytes are the   *)
(* pairs <<version, position>>.                                             *)
(***************************************************************************)
EXTENDS Naturals, Sequences

CONSTANTS
  Sizes,       \* ContentLength of the objects uploaded
  MaxUploads   \* objects committed under the key, the first included

ASSUME Sizes \subseteq Nat \ {0} /\ MaxUploads \in Nat \ {0}

VARIABLES
  current,   \* the object the key names in the bucket
  uploads,   \* objects committed so far
  ranger,    \* the ObjectRanger: [o |-> the object stat'ed], or NoRanger
  pc,        \* the request: "stat" | "size" | "range" | "done" | "failed"
  offset,    \* the range ServeContent asks for: first byte
  length,    \* and number of bytes
  served     \* the bytes written to the response

vars == <<current, uploads, ranger, pc, offset, length, served>>

NoRanger == [o |-> [version |-> 0, size |-> 0]]

\* The bytes of object obj from off, len of them.
Bytes(obj, off, len) == [i \in 1..len |-> <<obj.version, off + i - 1>>]

MinOf(a, b) == IF a < b THEN a ELSE b

-----------------------------------------------------------------------------
\* objectranger.New(p, o, bucket): the project and bucket are left out.
New(o) == [o |-> o]

\* (*ObjectRanger).Size: the ContentLength of the stat'ed object.
Size(rg) == rg.o.size

\* project.DownloadObject on the object obj the key names now: it fails
\* when off is past the end, else it reads at most len bytes.
DownloadFails(obj, off) == off > obj.size

DownloadObject(obj, off, len) == Bytes(obj, off, MinOf(len, obj.size - off))

Init ==
  /\ current \in [version : {1}, size : Sizes]
  /\ uploads = 1
  /\ ranger = NoRanger
  /\ pc = "stat"
  /\ offset = 0
  /\ length = 0
  /\ served = <<>>

\* Another client commits a new object under the key.
Upload(size) ==
  /\ uploads < MaxUploads
  /\ uploads' = uploads + 1
  /\ current' = [version |-> uploads + 1, size |-> size]
  /\ UNCHANGED <<ranger, pc, offset, length, served>>

\* The linksharing handler stats the key and builds the ranger from the
\* object it got.
Stat ==
  /\ pc = "stat"
  /\ ranger' = New(current)
  /\ pc' = "size"
  /\ UNCHANGED <<current, uploads, offset, length, served>>

\* ServeContent calls Size() and picks a non-empty range inside it, the
\* whole object or the one the Range header asks for.
ServeContent ==
  /\ pc = "size"
  /\ \E off \in 0..Size(ranger), len \in 1..Size(ranger) :
       /\ off + len <= Size(ranger)
       /\ offset' = off
       /\ length' = len
  /\ pc' = "range"
  /\ UNCHANGED <<current, uploads, ranger, served>>

\* (*ObjectRanger).Range(ctx, offset, length) and the copy of what it
\* returns into the response.
Range ==
  /\ pc = "range"
  /\ IF DownloadFails(current, offset)
       THEN pc' = "failed" /\ UNCHANGED served
       ELSE pc' = "done" /\ served' = DownloadObject(current, offset, length)
  /\ UNCHANGED <<current, uploads, ranger, offset, length>>

Next ==
  \/ \E size \in Sizes : Upload(size)
  \/ Stat \/ ServeContent \/ Range

Spec == Init /\ [][Next]_vars

-----------------------------------------------------------------------------
TypeOK ==
  /\ current \in [version : 1..MaxUploads, size : Sizes]
  /\ uploads \in 1..MaxUploads
  /\ pc \in {"stat", "size", "range", "done", "failed"}

(***************************************************************************)
(* Size() and Range() describe one object: a response served through the   *)
(* ranger carries the requested bytes of the object whose ContentLength    *)
(* the handler announced, and no bytes of another object.                  *)
(***************************************************************************)
ServedObjectIsStatted ==
  pc = "done" => served = Bytes(ranger.o, offset, length)

=============================================================================
