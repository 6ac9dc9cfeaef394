------------------------------- MODULE Layers -------------------------------
(***************************************************************************)
(* The layers of the seal: what build.rs writes, and what main() makes of  *)
(* it from the installed filter to the text in content_buf (src/main.rs,   *)
(* src/crypto.rs).                                                         *)
(*                                                                         *)
(* Any few of the embedded blobs may be damaged: a byte of them differs    *)
(* from what was sealed.  Primitives are ideal.  An AEAD opens what is     *)
(* whole under its key and nothing else, RSA-OAEP refuses a damaged        *)
(* ciphertext, Kyber and McEliece give another secret for one; a damaged   *)
(* public key parses or does not; a signature verifies if nothing of key,  *)
(* message and signature is damaged.  FrodoKEM's shared secret would tell  *)
(* a damaged ciphertext, but main() takes the decoded message, whose noise *)
(* swallows small damage: it is refused, decoded to another message, or to *)
(* the same.  A 32-byte secret is a formal sum over GF(2) of the secrets   *)
(* it was made from.                                                       *)
(***************************************************************************)
EXTENDS Siv, Filter

CONSTANTS
  Metas, Texts,  \* the metadata and the texts sealed, as bytes
  MaxBad,        \* bound: blobs damaged in a run
  Calls,         \* numbers of the system calls that are tried
  PageSize,      \* bytes in a page (4096)
  Overhead       \* what wrap_key adds to a plaintext (12 + 16)

ASSUME MetasAssumption == \A m \in Metas : m \in Seq(Bytes) /\ Len(m) \in Octets \ {0}
ASSUME TextsAssumption == Texts \subseteq Seq(Bytes)
ASSUME MaxBadAssumption == MaxBad \in Nat
ASSUME CallsAssumption == Calls \subseteq Nat
ASSUME PageSizeAssumption == PageSize \in Nat \ {0}
ASSUME OverheadAssumption == Overhead \in Nat

VARIABLES
  meta, content,  \* what was sealed (never changes)
  iv,             \* the number the SIV's tag is (never changes)
  bad,            \* the damaged blobs (never changes)
  call,           \* the system call that is tried (never changes)
  at,             \* where main() is
  proc,           \* "running", or how the process ended
  shards,         \* the shards recovered so far
  dek,            \* what DEK_WRAP holds, or the shards combined
  text            \* content_buf, once it is written

sealedVars == <<meta, content, iv, bad, call>>
vars == <<sealedVars, at, proc, shards, dek, text>>

-----------------------------------------------------------------------------
(* The build.                                                              *)

\* The layers with a secret key that is wrapped and a ciphertext.
Kems == {"rsa", "kyber", "mceliece", "frodokem"}

\* The blobs main() reads after the password (KM gave it k1), but for those
\* of module Keeper; PAYLOAD is embedded for its length only.
SkWrap(l) == <<"sk_wrap", l>>
Ct(l) == <<"ct", l>>
One(name) == <<name, "">>
Blobs == {SkWrap(l) : l \in Kems} \cup {Ct(l) : l \in Kems}
  \cup {One(n) : n \in {"km", "ts", "ts_plain", "vk", "sig", "dek_wrap", "siv",
                        "ed_vk", "ed_sig", "payload"}}

Whole(b) == b \notin bad

\* derive_wrapping_keys, the build's copy: one key for each label.
BuildLabels == <<"rsa", "kyber", "mceliece", "frodokem", "dilithium", "serpent-dek">>
Hkdf(master, label) == <<"hkdf", master, label>>
BuildWrappingKeys(master) ==
  [i \in DOMAIN BuildLabels |-> Hkdf(master, BuildLabels[i])]

\* Which of them each blob is wrapped with.
KeyPlace(l) == CASE l = "rsa" -> 1 [] l = "kyber" -> 2 [] l = "mceliece" -> 3
                 [] l = "frodokem" -> 4 [] l = "serpent-dek" -> 6

\* Mutant of Hash: one function for both shards.
HashAlike(function, vk) == {<<"hash", vk>>}

\* The two shards made from the Dilithium public key.
Hash(function, vk) == {<<function, vk>>}

Shard(l) == {<<"shard", l>>}
Xor32(a, b, c) == Xor(Xor(a, b), c)

SealedDek ==
  LET vkShard == Hash("blake3", "vk")
      sm3     == Hash("sm3", "vk")
      three   == Xor32(Shard("rsa"), Shard("kyber"), Shard("mceliece"))
  IN  Xor32(Xor32(three, Shard("frodokem"), vkShard), sm3, {})

Opening == <<Byte(7)>>

\* [meta_len][meta][text], meta_len in one byte.
Payload(m, t) == <<Byte(Len(m))>> \o m \o t

SealedSiv == SivEncrypt(SealedDek, Opening, iv, Payload(meta, content))

\* payload.bin is wrapped twice.
PayloadLen == Len(Payload(meta, content)) + 2 * Overhead

-----------------------------------------------------------------------------
(* Steps shared by the layers.                                             *)

At(p) == at = p /\ proc = "running"
Goto(p) == at' = p /\ UNCHANGED proc
End(how) == proc' = how /\ UNCHANGED at
SealKeeps == UNCHANGED sealedVars

\* Mutant of Usable: rounded down.
UsableDown(len) ==
  IF len <= PageSize THEN PageSize ELSE (len \div PageSize) * PageSize

\* SecBuf::new: what lies between the two guard pages.
Usable(len) ==
  IF len <= PageSize THEN PageSize ELSE ((len + PageSize - 1) \div PageSize) * PageSize

\* k1, as the VM made it from KM.
K1 == IF Whole(One("km")) THEN "k1" ELSE "no key"

\* Mutant of Labels: two labels are swapped in one of the two copies.
LabelsSwapped == <<"rsa", "kyber", "frodokem", "mceliece", "dilithium", "serpent-dek">>

\* derive_wrapping_keys, the copy of crypto.rs.
Labels == <<"rsa", "kyber", "mceliece", "frodokem", "dilithium", "serpent-dek">>
WrappingKeys == [i \in DOMAIN Labels |-> Hkdf(K1, Labels[i])]

\* Does crypto::decrypt open the blob that is wrapped for this layer?
Unwraps(l, b) ==
  /\ Whole(b)
  /\ WrappingKeys[KeyPlace(l)] = BuildWrappingKeys("k1")[KeyPlace(l)]

\* The shards a ciphertext may yield.  A damaged one of RSA yields none; what
\* small damage does to FrodoKEM's is rounded away when its message is decoded.
Other(l) == {<<"other", l>>}
Yields(l) ==
  IF Whole(Ct(l)) THEN {Shard(l)}
  ELSE CASE l = "rsa"      -> {}
         [] l = "frodokem" -> {Shard(l), Other(l)}
         [] OTHER          -> {Other(l)}
Rejects(l) == l \in {"rsa", "frodokem"} /\ ~Whole(Ct(l))

-----------------------------------------------------------------------------
(* Before the layers.                                                      *)

\* A system call once the filter is installed, whoever makes it: the kernel
\* lets it pass or kills the process.
SystemCall ==
  /\ At("filtered")
  /\ IF Verdict(call[1], call[2]) = {Allow} THEN Goto("ts") ELSE End("barred")
  /\ UNCHANGED <<shards, dek, text>> /\ SealKeeps

\* TS_BLOB opens under k1 itself, and holds the opening time.
OpenTs ==
  /\ At("ts")
  /\ IF K1 = "k1" /\ Whole(One("ts")) THEN Goto("ts_plain") ELSE End("died")
  /\ UNCHANGED <<shards, dek, text>> /\ SealKeeps

\* TS_PLAIN agrees.  Here the hour is checked, see TimeGate.
ComparePlain ==
  /\ At("ts_plain")
  /\ IF Whole(One("ts_plain")) THEN Goto("rsa") ELSE End("died")
  /\ UNCHANGED <<shards, dek, text>> /\ SealKeeps

-----------------------------------------------------------------------------
(* The layers.                                                             *)

\* The layer's secret key is unwrapped and its shard recovered.
Recover(l, p) ==
  /\ At(l)
  /\ IF ~Unwraps(l, SkWrap(l)) THEN End("died") /\ UNCHANGED shards
     ELSE \/ \E s \in Yields(l) : Goto(p) /\ shards' = [shards EXCEPT ![l] = s]
          \/ /\ Rejects(l)
             /\ End("panicked") /\ UNCHANGED shards
  /\ UNCHANGED <<dek, text>> /\ SealKeeps

\* Mutant of RecoverAll: there is a layer for each key that is derived.
RecoverAllLabels ==
  \/ Recover("rsa", "kyber")
  \/ Recover("kyber", "mceliece")
  \/ Recover("mceliece", "frodokem")
  \/ Recover("frodokem", "dilithium")

\* Dilithium's secret key is sealed, and never opened again.
RecoverAll ==
  \/ Recover("rsa", "kyber")
  \/ Recover("kyber", "mceliece")
  \/ Recover("mceliece", "frodokem")
  \/ Recover("frodokem", "vk")

\* The Dilithium public key is parsed.
ParseVk ==
  /\ At("vk")
  /\ \/ Goto("dek")
     \/ ~Whole(One("vk")) /\ End("panicked")
  /\ UNCHANGED <<shards, dek, text>> /\ SealKeeps

UnwrapDek ==
  /\ At("dek")
  /\ IF Unwraps("serpent-dek", One("dek_wrap"))
       THEN Goto("combine") /\ dek' = SealedDek
       ELSE End("died") /\ UNCHANGED dek
  /\ UNCHANGED <<shards, text>> /\ SealKeeps

\* xor6 of the shards, those of the public key among them.
Vk == IF Whole(One("vk")) THEN "vk" ELSE "other vk"
Xor6(s, v, m) ==
  Xor(Xor(Xor(Xor(Xor(s["rsa"], s["kyber"]), s["mceliece"]), s["frodokem"]), v), m)
Combined == Xor6(shards, Hash("blake3", Vk), Hash("sm3", Vk))

\* The DEK goes on as combined, if DEK_WRAP held the same.
Combine ==
  /\ At("combine")
  /\ dek' = Combined
  /\ IF Combined = dek THEN Goto("sig") ELSE End("died")
  /\ UNCHANGED <<shards, text>> /\ SealKeeps

\* Is the message rebuilt the one that was signed?
Signed == dek = SealedDek /\ Whole(One("siv"))

\* Dilithium's signature over the opening time, the DEK and the SIV's hash.
VerifySig ==
  /\ At("sig")
  /\ IF Signed /\ Whole(One("vk")) /\ Whole(One("sig"))
       THEN Goto("ed_sig") ELSE End("died")
  /\ UNCHANGED <<shards, dek, text>> /\ SealKeeps

\* Mutant of VerifyEd: the answer is not looked at.
VerifyEdAnyway ==
  /\ At("ed_sig")
  /\ Goto("siv")
  /\ UNCHANGED <<shards, dek, text>> /\ SealKeeps

\* Ed448's over the same; its key and signature are parsed first.
VerifyEd ==
  /\ At("ed_sig")
  /\ \/ ~Whole(One("ed_vk")) /\ End("panicked")
     \/ IF Signed /\ Whole(One("ed_vk")) /\ Whole(One("ed_sig"))
          THEN Goto("siv") ELSE End("died")
  /\ UNCHANGED <<shards, dek, text>> /\ SealKeeps

\* SIV_BLOB: a byte of it may be another.
Flip == {<<"flip", 0>>}
SivBlob == IF Whole(One("siv")) THEN SealedSiv
           ELSE [SealedSiv EXCEPT ![Len(SealedSiv)] = Xor(@, Flip)]

\* The text after meta_len and the metadata; all of it if they do not fit.
Parsed(c) ==
  IF c = <<>> THEN c
  ELSE LET end == 1 + (CHOOSE n \in Octets : Byte(n) = c[1])
       IN  IF Len(c) >= end THEN SubSeq(c, end + 1, Len(c)) ELSE Tail(c)

\* The payload is decrypted, parsed and copied; content_buf has PAYLOAD's size.
Decrypt ==
  /\ At("siv")
  /\ LET d == SivDecrypt(dek, Opening, iv, SivBlob)
         t == Parsed(d.text)
     IN  IF ~d.ok THEN End("panicked") /\ UNCHANGED text
         ELSE IF Len(t) > Usable(PayloadLen) THEN End("fault") /\ UNCHANGED text
         ELSE Goto("shown") /\ text' = <<t>>
  /\ UNCHANGED <<shards, dek>> /\ SealKeeps

-----------------------------------------------------------------------------
(* The specification.                                                      *)

Native == <<AuditArch, 1>>
NoCount == [i \in 1 .. Block |-> 0]

Init ==
  /\ meta \in Metas /\ content \in Texts
  \* Bound: a run is tried with a counter, a system call or some damage.
  /\ \/ iv \in Counters /\ bad = {} /\ call = Native
     \/ iv = NoCount /\ bad = {} /\ call \in {AuditArch, 3} \X Calls
     \/ iv = NoCount /\ call = Native
        /\ bad \in UNION {kSubset(n, Blobs) : n \in 1 .. MaxBad}
  /\ at = "filtered" /\ proc = "running"
  /\ shards = [l \in Kems |-> {}] /\ dek = {} /\ text = <<>>

Next == \/ SystemCall \/ OpenTs \/ ComparePlain
        \/ RecoverAll \/ ParseVk \/ UnwrapDek \/ Combine
        \/ VerifySig \/ VerifyEd \/ Decrypt

Spec == Init /\ [][Next]_vars

-----------------------------------------------------------------------------
(* Properties.                                                             *)

Places == {"filtered", "ts", "ts_plain", "vk", "dek", "combine", "sig", "ed_sig",
           "siv", "shown"} \cup Kems

TypeOK ==
  /\ meta \in Metas /\ content \in Texts /\ iv \in Counters
  /\ bad \subseteq Blobs /\ call \in Nat \X Nat
  /\ at \in Places
  /\ proc \in {"running", "barred", "died", "panicked", "fault"}
  /\ DOMAIN shards = Kems
  /\ text = <<>> <=> at # "shown"

\* Keeper's two steps for all of this: its gate and its layers, for the key
\* page, the damaged blob and the end they speak of.
Layer == Blobs \ {One("km"), One("ts"), One("ts_plain"), One("payload"), Ct("frodokem")}
K == INSTANCE Keeper WITH
  Poll <- 1, StaleAfter <- 1, Slack <- 0, Mischief <- {}, ReadFaults <- FALSE,
  WorkMax <- 1, Patience <- 0, QueryMax <- 0, BurnMin <- 0,
  Words <- {"right"}, Blemishes <- {"none", "kmLow", "ts", "layer", "frodoCt"},
  proc <- CASE proc \in {"running", "barred"} -> "running"
            [] proc = "died" -> "killed" [] OTHER -> proc,
  cause <- IF proc # "died" THEN "none"
           ELSE IF at \in {"ts", "ts_plain"} THEN "gate" ELSE "layer",
  spare <- FALSE, running <- TRUE, quiet <- 0, dog <- "asleep", nap <- 0, lag <- 0,
  tracer <- FALSE, exe <- "intact", exeSha <- "intact",
  key <- [val |-> IF Whole(One("km")) THEN "secret" ELSE "wrong", prot |-> "ro"],
  keySha <- "secret", traced <- 0, forged <- 0,
  main <- CASE at \in {"filtered", "ts", "ts_plain"} -> "gate"
            [] at = "shown" -> "show" [] OTHER -> "layers",
  refusing <- FALSE, tty <- TRUE,
  bad <- IF ~Whole(One("km")) THEN "kmLow"
         ELSE IF bad \cap {One("ts"), One("ts_plain")} # {} THEN "ts"
         ELSE IF bad \cap Layer # {} THEN "layer"
         ELSE IF Ct("frodokem") \in bad THEN "frodoCt" ELSE "none",
  hour <- TRUE, typed <- "right", ntp <- "after",
  content <- IF text = <<>> THEN "none" ELSE "text",
  file <- "present", busy <- 0, burn <- 0

\* However many blobs are damaged and wherever the run ends, what the layers
\* do is a step of Keeper's gate or of its Unseal, or none: no damaged layer
\* yields the text but for what FrodoKEM's decoding rounds away, undamaged ones
\* always do, and death and panic come where Keeper says (the layers of main,
\* against module Keeper).
KeepsUnseal == [][K!PassGate \/ K!Unseal]_(K!vars)

\* What build.rs sealed opens, to the same text, with the build's own copy of
\* the key derivation and of Serpent-SIV, whatever the lengths and the
\* counter; PAYLOAD, damaged or not, does not matter.
SealOpens ==
  bad \subseteq {One("payload")} =>
    /\ proc \in {"running", "barred"}
    /\ at = "shown" => text = <<content>>

\* Past the comparison every shard is the sealed one, though two damaged
\* layers, or the two hashes of one damaged key, might have cancelled out
\* (xor6 and ct_eq in main).  So nothing they came from is damaged, but for a
\* FrodoKEM ciphertext that decodes to the sealed message none the less.
ShardsBind ==
  at \in {"sig", "ed_sig", "siv", "shown"} =>
    /\ dek = SealedDek
    /\ \A l \in Kems : shards[l] = Shard(l)
    /\ bad \cap ({SkWrap(l) : l \in Kems} \cup {Ct(l) : l \in Kems \ {"frodokem"}}
                   \cup {One("vk"), One("dek_wrap")}) = {}

\* content_buf, which is as large as the unused PAYLOAD rounded to pages,
\* holds the text: the copy does not reach the guard page (SecBuf::new, main).
TextFits == proc # "fault"

\* The process is killed for a call on the list or of another architecture and
\* for no other: no jump of the filter is one off (seccomp::install).
BarredAsListed ==
  LET listed == call[1] # AuditArch \/ \E i \in DOMAIN Blacklist : Blacklist[i] = call[2]
  IN  /\ proc = "barred" => listed
      /\ at # "filtered" => ~listed

\* What may become of an SIV: one byte differs, its top bit or another; it is
\* cut short, or longer.
Altered(blob) ==
  {[blob EXCEPT ![i] = Xor(@, d)] : i \in DOMAIN blob, d \in {Flip, Top}}
    \cup {SubSeq(blob, 1, n) : n \in 0 .. Len(blob) - 1}
    \cup {Append(blob, Zero[1])}

\* siv_decrypt refuses a blob of siv_encrypt that was altered in one of these
\* ways, be it the tag, a bit of it that the counter does not see, or the length.
AlteredSivRefused ==
  at = "filtered" /\ bad = {} =>
    \A blob \in Altered(SealedSiv) :
      ~SivDecrypt(SealedDek, Opening, iv, blob).ok

\* Two payloads never share a synthetic IV, and so no keystream: neither two
\* on the same side of a block's length nor one on each (s2v, pad16).
TagsDiffer ==
  at = "filtered" /\ bad = {} =>
    LET tag(p) == S2V(SealedDek, <<Opening>>, p)
        mine   == Payload(meta, content)
    IN  \A m \in Metas, t \in Texts : Payload(m, t) # mine => tag(Payload(m, t)) # tag(mine)

\* Radix^n.
Power[n \in Nat] == IF n = 0 THEN 1 ELSE Radix * Power[n - 1]

\* The number that the digits of a counter stand for, the lowest first.
ValueOf(c) ==
  FoldLeft(LAMBDA n, i : n + c[i] * Power[i - 1], 0, [i \in 1 .. Block |-> i])

\* A block's counter is one more than that of the block before, modulo the
\* largest, whatever carries; so no two blocks of a text meet the same, nor
\* does either side lose count (inc128, ctr_mask).
CountersCount ==
  at = "filtered" /\ bad = {} =>
    /\ ValueOf(Inc(iv)) = (ValueOf(iv) + 1) % Power[Block]
    /\ LET n == Len(Payload(meta, content))
       IN  \A p, q \in 1 .. n :
             CounterAt(iv, p) = CounterAt(iv, q)
               <=> (p - 1) \div Block = (q - 1) \div Block
=============================================================================
