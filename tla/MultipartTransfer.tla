------------------------- MODULE MultipartTransfer --------------------------
(***************************************************************************)
(* The bytes of one multipart upload: the server plans a part size, signs  *)
(* a URL per part whose content length is part of the signature, the       *)
(* client sends parts in any order and repeats the ones that failed, the   *)
(* completion list is checked against the layout, the provider assembles,  *)
(* and a worker streams the object into a new file.  Lengths are in        *)
(* abstract units; the provider's smallest part is MinPart of them.        *)
(***************************************************************************)
EXTENDS Integers, Sequences, FiniteSetsExt

CONSTANTS
    MaxLength,  \* the longest source the policy accepts
    MinPart,    \* 5 MiB, the smallest part but the last
    MaxParts,   \* 10 000
    PartSizes,  \* configurations of multipart_part_size_bytes
    ByteCap,    \* the worker's byte cap, DownloadObjectRequest.max_length
    MaxTries    \* bound on the transfers of parts

(* The layouts of the configurations the runs use fit into MaxParts parts,
   which Settings.validate does not ask for *)
LayoutAssumption ==
    /\ MinPart \in Nat \ {0} /\ PartSizes \subseteq Nat /\ MaxParts \in Nat
    /\ MaxLength \in Nat /\ ByteCap \in Nat
    /\ \A size \in PartSizes : size >= MinPart => MaxLength <= MaxParts * size

VARIABLES
    length,    \* uploads.expected_size_bytes
    partSize,  \* uploads.multipart_part_size_bytes
    signed,    \* the part URLs handed out: number and signed length
    part,      \* what the provider holds of each part, 0 for nothing
    stored,    \* the length of the assembled object, 0 before
    file,      \* the worker's copy: how far it got
    tries      \* transfers so far

vars == <<length, partSize, signed, part, stored, file, tries>>

Numbers == 0..(MaxParts + 1)

NoFile == [state |-> "none", length |-> 0]

(* create_batch has planned a multipart upload, and opened its session *)
Init ==
    /\ length \in 1..MaxLength
    /\ partSize \in {size \in PartSizes : size >= MinPart}
    /\ signed = {}
    /\ part = [n \in Numbers |-> 0]
    /\ stored = 0
    /\ file = NoFile
    /\ tries = 0

CeilDiv(a, b) == (a + b - 1) \div b

(* Faulty: the last part is as long as the others *)
expected_part_length_AllFull(n) ==
    IF n = 0 \/ n > MaxParts \/ (n - 1) * partSize >= length THEN 0 ELSE partSize

(* 0 where the code answers None *)
expected_part_length(n) ==
    IF n = 0 \/ n > MaxParts \/ (n - 1) * partSize >= length THEN 0
    ELSE Min({length - (n - 1) * partSize, partSize})

(* presign_part *)
PresignPart(n, len) ==
    /\ stored = 0
    /\ len > 0 /\ expected_part_length(n) = len
    /\ signed' = signed \cup {<<n, len>>}
    /\ UNCHANGED <<length, partSize, part, stored, file, tries>>

(* The client sends the bytes its URL was signed for; the answer may be lost,
   and it may send them again *)
SendPart(url) ==
    /\ url \in signed
    /\ stored = 0 /\ tries < MaxTries
    /\ tries' = tries + 1
    /\ part' = [part EXCEPT ![url[1]] = url[2]]
    /\ UNCHANGED <<length, partSize, signed, stored, file>>

(* validate_completion, then the adapter's validate_completed_parts.  A list
   is its part numbers; an entity tag is present or the part is not. *)
validate_completion(list) ==
    LET count == CeilDiv(length, partSize) IN
    /\ count <= MaxParts
    /\ list = [i \in 1..count |-> i]

validate_completed_parts(list) ==
    /\ Len(list) \in 1..MaxParts
    /\ \A i \in DOMAIN list : list[i] > IF i = 1 THEN 0 ELSE list[i - 1]

(* The length of the object the provider puts together *)
Assembled(list) == FoldSet(LAMBDA i, sum : part[list[i]] + sum, 0, DOMAIN list)

(* complete_multipart.  The provider refuses a part it does not hold, and one
   below its minimum that is not the last. *)
CompleteMultipart(list) ==
    /\ stored = 0
    /\ validate_completion(list)
    /\ validate_completed_parts(list)
    /\ \A i \in DOMAIN list : part[list[i]] > 0
    /\ \A i \in 1..(Len(list) - 1) : part[list[i]] >= MinPart
    /\ stored' = Assembled(list)
    /\ UNCHANGED <<length, partSize, signed, part, file, tries>>

(* download_to asks for the expected length, within the byte cap *)
OpenDownload ==
    /\ stored > 0 /\ file = NoFile
    /\ length <= ByteCap
    /\ IF stored = length
       THEN file' = [state |-> "open", length |-> 0]
       ELSE file' = [state |-> "mismatch", length |-> 0]
    /\ UNCHANGED <<length, partSize, signed, part, stored, tries>>

(* stream_body_to_new_file: a chunk, or the end of the body, which may come
   early; a copy of another length is removed *)
StreamChunk(n) ==
    /\ file.state = "open"
    /\ \/ /\ n > 0 /\ file.length + n <= stored
          /\ file' = IF file.length + n > Min({length, ByteCap}) THEN NoFile
                     ELSE [file EXCEPT !.length = @ + n]
       \/ /\ n = 0
          /\ file' = IF file.length = length THEN [file EXCEPT !.state = "complete"] ELSE NoFile
    /\ UNCHANGED <<length, partSize, signed, part, stored, tries>>

FullList == [i \in 1..CeilDiv(length, partSize) |-> i]

Lists == UNION {[1..k -> 1..k] : k \in 1..MaxParts}

Next ==
    \/ \E n \in Numbers : \E len \in 1..MaxLength : PresignPart(n, len)
    \/ \E url \in signed : SendPart(url)
    \/ \E list \in Lists : CompleteMultipart(list)
    \/ OpenDownload
    \/ \E n \in 0..MaxLength : StreamChunk(n)

Spec == Init /\ [][Next]_vars

-----------------------------------------------------------------------------
(* The object the provider assembles from signed parts is the reserved source,
   byte for byte in length, for every source length and part size, and the
   confirmed download is all of it: verify_stored_size and the download check
   never refuse what the layout produced. *)
StoredAsReserved ==
    /\ stored > 0 => stored = length
    /\ file.state # "mismatch"

(* A worker that goes on with its copy has the whole source. *)
CopyIsWhole == file.state = "complete" => file.length = length

(* Once every part the layout signs has arrived, the provider takes the list
   that validate_completion asks for. *)
LayoutCompletes ==
    (\A n \in 1..MaxParts : expected_part_length(n) > 0 => part[n] > 0) =>
      /\ validate_completed_parts(FullList)
      /\ \A i \in DOMAIN FullList : part[i] >= IF i < Len(FullList) THEN MinPart ELSE 1

(* From the layout over the assembled object to the worker's copy, no length
   is off by a part or a byte. *)
TransferExact == StoredAsReserved /\ CopyIsWhole /\ LayoutCompletes

=============================================================================
