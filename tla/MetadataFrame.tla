---------------------------- MODULE MetadataFrame ----------------------------
(***************************************************************************)
(* decode_metadata of src/lib.rs: the frame a pack's metadata comes in,    *)
(*     MAGIC | version | body_len (u64) | body | digest of the body        *)
(* and the order of its checks.  The digest covers the body only, so the   *)
(* header is whatever the server wrote.  body_len is cut to a usize before *)
(* it is compared: 32 bits in wasm, 64 where a node reads the same frame.  *)
(***************************************************************************)
EXTENDS Integers

CONSTANTS
    HeaderBytes,   \* HEADER_BYTES: magic, version, body_len
    TrailerBytes,  \* TRAILER_BYTES: the digest
    ClassBytes,    \* the 32 bytes of one matrix digest
    Leaves,        \* HISTORY_STEP_CLASS_COUNT
    Body, Digest   \* bodies, and poseidon2b of one

(* MATRIX_DIGEST_BYTES *)
DigestsBytes == ClassBytes * Leaves

ASSUME FrameConstants ==
    /\ HeaderBytes \in Nat /\ TrailerBytes \in Nat
    /\ ClassBytes \in Nat \ {0} /\ Leaves \in Nat \ {0}

(* Collision resistance of the digest.                                     *)
ASSUME DigestInjective == \A b, c \in Body : Digest[b] = Digest[c] => b = c

(* A file: its length, what its header says, and the bytes between the     *)
(* header and the last TrailerBytes of it, which are its trailer.          *)
Frames == [length : Nat, magic : BOOLEAN, version : Nat, bodyLen : Nat,
           body : Body, trailer : {Digest[b] : b \in Body}]

(* What a release writes.                                                  *)
FrameOf(body, bytes) ==
    [length |-> HeaderBytes + bytes + TrailerBytes, magic |-> TRUE, version |-> 1,
     bodyLen |-> bytes, body |-> body, trailer |-> Digest[body]]

(* `as usize` *)
BodyLength(f, word) == f.bodyLen % word

(* checked_add: past the word is an overflow.                              *)
ExpectedLength(f, word) == HeaderBytes + BodyLength(f, word) + TrailerBytes

(* Mutant: the body is checked against its own trailer only.               *)
DecodeSelfPinned(f, pinned, word) ==
    IF f.length < HeaderBytes + DigestsBytes + TrailerBytes THEN "too short"
    ELSE IF ~f.magic THEN "bad magic"
    ELSE IF f.version # 1 THEN "version"
    ELSE IF ExpectedLength(f, word) >= word THEN "overflow"
    ELSE IF ExpectedLength(f, word) # f.length \/ BodyLength(f, word) <= DigestsBytes
    THEN "length mismatch"
    ELSE IF f.trailer # Digest[f.body] THEN "not its trailer"
    ELSE "ok"

(* The checks up to the decoding of the body, which the digest vouches for.*)
Decode(f, pinned, word) ==
    IF f.length < HeaderBytes + DigestsBytes + TrailerBytes THEN "too short"
    ELSE IF ~f.magic THEN "bad magic"
    ELSE IF f.version # 1 THEN "version"
    ELSE IF ExpectedLength(f, word) >= word THEN "overflow"
    ELSE IF ExpectedLength(f, word) # f.length \/ BodyLength(f, word) <= DigestsBytes
    THEN "length mismatch"
    ELSE IF f.trailer # Digest[f.body] THEN "not its trailer"
    ELSE IF Digest[f.body] # pinned THEN "not the pinned release"
    ELSE "ok"

Hashed == {"not its trailer", "not the pinned release", "ok"}

(* The slices taken once the lengths have passed: the body, the rest of    *)
(* the file, which must be one digest, and the first bytes of the body,    *)
(* one digest per class.                                                   *)
SlicesFit(f, word) ==
    /\ HeaderBytes + BodyLength(f, word) <= f.length
    /\ f.length - (HeaderBytes + BodyLength(f, word)) = TrailerBytes
    /\ \A i \in 0..(Leaves - 1) : i * ClassBytes + ClassBytes <= BodyLength(f, word)
=============================================================================
