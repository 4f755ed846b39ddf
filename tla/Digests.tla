------------------------------ MODULE Digests ------------------------------
(***************************************************************************)
(* The digests a bundle carries: the digest of a source file and the       *)
(* identifier of a block (identity.rs), the self-consistency digest of a   *)
(* whole bundle (attestation.rs), and the lossless encoding of byte fields *)
(* (render_support.rs, evidence.rs::decoded_bytes).                        *)
(*                                                                         *)
(* SHA-256 is modelled by its preimage: two digests are equal exactly when *)
(* the hashed byte strings are, which is the collision resistance the code *)
(* relies on.  What the preimages do and do not tell apart is therefore    *)
(* what the digests do and do not tell apart.  The eight bytes of a length *)
(* prefix are one element of the preimage.                                 *)
(***************************************************************************)
EXTENDS Bytes

SHA256(preimage) == preimage

Frame(field) == <<Len(field)>> \o field

\* The decimal digits of a number, as to_string().as_bytes() gives them.
Decimal[n \in Nat] ==
  IF n < 10 THEN <<48 + n>> ELSE Decimal[n \div 10] \o <<48 + (n % 10)>>

Number(n) == Frame(Decimal[n])

Frames(seq, Item(_)) == FlattenSeq([k \in DOMAIN seq |-> Item(seq[k])])

\* Mutant: a list is hashed without the number of its strings.
StringsUncounted(values) == Frames(values, Frame)

Strings(values) == Number(Len(values)) \o Frames(values, Frame)

(***************************************************************************)
(* Encoded byte fields.  A field is valid UTF-8 text, base64, or base64    *)
(* text that does not decode; the decoded bytes are all a digest sees.     *)
(* Bytes from 128 on stand for the byte strings that are not UTF-8.        *)
(***************************************************************************)

Encodings == {"utf8", "base64", "malformed"}

Encoded(bytes) ==
  [encoding |-> IF \A i \in DOMAIN bytes : bytes[i] < 128
                THEN "utf8" ELSE "base64",
   bytes    |-> bytes]

Decodable(field) == field.encoding # "malformed"

(***************************************************************************)
(* identity.rs                                                             *)
(***************************************************************************)

\* Stand for the two domain separation strings.
BlockDomain  == <<1001>>
BundleDomain == <<1002>>

source_sha256(raw) == SHA256(raw)

\* Mutant: the line numbers are hashed without frames.
block_id_unframed(path, line_start, line_end, content) ==
  SHA256(BlockDomain \o Frame(path) \o Decimal[line_start]
           \o Decimal[line_end] \o Frame(content))

block_id(path, line_start, line_end, content) ==
  SHA256(BlockDomain \o Frame(path) \o Number(line_start)
           \o Number(line_end) \o Frame(content))

(***************************************************************************)
(* attestation.rs.  The root, the budget and the digest itself are not     *)
(* part of the preimage.                                                   *)
(***************************************************************************)

\* SkipReason in declaration order, which is also the order of its values.
SkipReasons == <<"ignored", "hidden", "secret", "symlink", "non_regular",
                 "oversized", "budget", "invalid_path", "io_error">>

ReasonOrder(reason) == CHOOSE k \in DOMAIN SkipReasons : SkipReasons[k] = reason

\* The name of a reason or of a verdict is one element of its own.
ReasonFrame(reason)   == Frame(<<1100 + ReasonOrder(reason)>>)
VerdictFrame(verdict) == Frame(<<IF verdict = "accepted" THEN 1201 ELSE 1202>>)

ScoreFrames(s) ==
  Frames(<<s.exact_phrase, s.identifier, s.all_terms,
           s.heading, s.path, s.proximity>>, Number)

BlockFrames(b) ==
  Frame(b.path.bytes) \o Number(b.line_start) \o Number(b.line_end)
    \o Number(b.byte_start) \o Number(b.byte_end) \o Frame(b.content.bytes)
    \o Strings(b.matched_terms) \o Number(b.score)
    \o ScoreFrames(b.score_components) \o Strings(b.why)
    \o Frame(b.block_id) \o Frame(b.source_sha256)

SkipFrames(skip) == Frame(skip.path.bytes) \o ReasonFrame(skip.reason)

CriticFrames(critic) ==
  VerdictFrame(critic.verdict) \o Strings(critic.covered_quoted_phrases)
    \o Strings(critic.covered_identifiers) \o Strings(critic.uncovered)

BundlePreimage(bundle) ==
  BundleDomain \o Frame(bundle.schema_version) \o Frame(bundle.query)
    \o Number(Len(bundle.blocks)) \o Frames(bundle.blocks, BlockFrames)
    \o Number(Len(bundle.skipped)) \o Frames(bundle.skipped, SkipFrames)
    \o CriticFrames(bundle.critic)

\* compute_bundle_sha256 fails on a bundle that is not Attestable.
Attestable(bundle) ==
  /\ \A b \in ToSet(bundle.blocks) : Decodable(b.path) /\ Decodable(b.content)
  /\ \A s \in ToSet(bundle.skipped) : Decodable(s.path)

bundle_sha256(bundle) == SHA256(BundlePreimage(bundle))
=============================================================================
