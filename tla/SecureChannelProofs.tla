------------------------- MODULE SecureChannelProofs -------------------------
(***************************************************************************)
(* Theorems about the encrypted channel, for nonces, tags and packets of   *)
(* any size: which sealed packets decrypt opens, at either end, through    *)
(* any sequence of keys drawn and exchanged.                               *)
(***************************************************************************)
EXTENDS SecureChannel, SequenceTheorems, TLAPS

\* The nonce may be empty, the tag may not: it is what seals a packet.
SizesAssumption == NONCE_SIZE \in Nat /\ TAG_SIZE \in Nat \ {0} /\ Sizes \subseteq Nat

-----------------------------------------------------------------------------
(* The bytes of a sealed packet. *)

LEMMA PartBytes ==
    ASSUME NEW kind \in {"nonce", "text", "tag"}, NEW n \in Nat, NEW size \in Nat
    PROVE  /\ Part(kind, n, size) \in Seq(Byte)
           /\ Len(Part(kind, n, size)) = size
           /\ \A i \in 1 .. size :
                Part(kind, n, size)[i].kind = kind /\ Part(kind, n, size)[i].of = n
  <1>1. \A i \in 1 .. size : [kind |-> kind, of |-> n, at |-> i] \in Byte
    BY DEF Byte
  <1>2. [i \in 1 .. size |-> [kind |-> kind, of |-> n, at |-> i]] \in Seq(Byte)
    BY <1>1, IsASeq
  <1> QED
    BY <1>2, LenProperties DEF Part

LEMMA NonceBytes ==
    ASSUME NONCE_SIZE \in Nat, NEW n \in Nat
    PROVE  /\ Nonce(n) \in Seq(Byte) /\ Len(Nonce(n)) = NONCE_SIZE
           /\ \A i \in 1 .. NONCE_SIZE : Nonce(n)[i].kind = "nonce"
  BY PartBytes DEF Nonce

LEMMA TextBytes ==
    ASSUME NEW n \in Nat, NEW size \in Nat
    PROVE  /\ Text(n, size) \in Seq(Byte) /\ Len(Text(n, size)) = size
           /\ \A i \in 1 .. size : Text(n, size)[i].kind = "text"
  BY PartBytes DEF Text

LEMMA TagBytes ==
    ASSUME TAG_SIZE \in Nat, NEW n \in Nat
    PROVE  /\ Tag(n) \in Seq(Byte) /\ Len(Tag(n)) = TAG_SIZE
           /\ \A i \in 1 .. TAG_SIZE : Tag(n)[i].kind = "tag" /\ Tag(n)[i].of = n
  BY PartBytes DEF Tag

LEMMA Parts ==
    ASSUME SizesAssumption, NEW n \in Nat, NEW size \in Nat
    PROVE  /\ Nonce(n) \in Seq(Byte) /\ Len(Nonce(n)) = NONCE_SIZE
           /\ Text(n, size) \in Seq(Byte) /\ Len(Text(n, size)) = size
           /\ Tag(n) \in Seq(Byte) /\ Len(Tag(n)) = TAG_SIZE
           /\ \A i \in 1 .. NONCE_SIZE : Nonce(n)[i].kind = "nonce"
           /\ \A i \in 1 .. size : Text(n, size)[i].kind = "text"
           /\ \A i \in 1 .. TAG_SIZE : Tag(n)[i].kind = "tag" /\ Tag(n)[i].of = n
  <1> USE DEF SizesAssumption
  <1>1. /\ Nonce(n) \in Seq(Byte) /\ Len(Nonce(n)) = NONCE_SIZE
        /\ \A i \in 1 .. NONCE_SIZE : Nonce(n)[i].kind = "nonce"
    BY NonceBytes
  <1>2. /\ Text(n, size) \in Seq(Byte) /\ Len(Text(n, size)) = size
        /\ \A i \in 1 .. size : Text(n, size)[i].kind = "text"
    BY TextBytes
  <1>3. /\ Tag(n) \in Seq(Byte) /\ Len(Tag(n)) = TAG_SIZE
        /\ \A i \in 1 .. TAG_SIZE : Tag(n)[i].kind = "tag" /\ Tag(n)[i].of = n
    BY TagBytes
  <1> QED
    BY <1>1, <1>2, <1>3

LEMMA SealingAt ==
    ASSUME SealingsInv, NEW n \in 1 .. Len(sealings)
    PROVE  /\ n \in Nat /\ sealings[n].size \in Nat /\ sealings[n].key \in Nat
           /\ sealings[n].bytes \in {EncryptPacket(n, sealings[n].size),
                                     Encrypt(n, sealings[n].size)}
  <1>1. sealings \in Seq(Sealing)
    BY DEF SealingsInv
  <1>2. sealings[n] \in Sealing /\ n \in Nat
    BY <1>1, ElementOfSeq
  <1> QED
    BY <1>2 DEF SealingsInv, Sealing

\* Where the parts of a packet sealed by the phone begin and end.
LEMMA PhoneBytes ==
    ASSUME SizesAssumption, NEW n \in Nat, NEW size \in Nat
    PROVE  LET data == EncryptPacket(n, size) IN
             /\ data \in Seq(Byte)
             /\ Len(data) = NONCE_SIZE + size + TAG_SIZE
             /\ \A i \in 1 .. NONCE_SIZE : data[i] = Nonce(n)[i]
             /\ \A i \in 1 .. size : data[NONCE_SIZE + i] = Text(n, size)[i]
             /\ \A i \in 1 .. TAG_SIZE : data[NONCE_SIZE + size + i] = Tag(n)[i]
  <1> USE DEF SizesAssumption
  <1> DEFINE a == Nonce(n)
             b == Text(n, size)
             c == Tag(n)
             ab == a \o b
  <1>1. a \in Seq(Byte) /\ Len(a) = NONCE_SIZE
    BY Parts
  <1>2. b \in Seq(Byte) /\ Len(b) = size
    BY Parts
  <1>3. c \in Seq(Byte) /\ Len(c) = TAG_SIZE
    BY Parts
  <1> HIDE DEF a, b, c
  <1>4. /\ ab \in Seq(Byte) /\ Len(ab) = NONCE_SIZE + size
        /\ \A i \in 1 .. NONCE_SIZE + size : ab[i] = IF i <= NONCE_SIZE THEN a[i] ELSE b[i - NONCE_SIZE]
    BY <1>1, <1>2, ConcatProperties
  <1> HIDE DEF ab
  <1>5. /\ ab \o c \in Seq(Byte) /\ Len(ab \o c) = NONCE_SIZE + size + TAG_SIZE
        /\ \A i \in 1 .. NONCE_SIZE + size + TAG_SIZE :
             (ab \o c)[i] = IF i <= NONCE_SIZE + size THEN ab[i] ELSE c[i - (NONCE_SIZE + size)]
    <2>1. /\ ab \o c \in Seq(Byte) /\ Len(ab \o c) = Len(ab) + Len(c)
          /\ \A i \in 1 .. Len(ab) + Len(c) :
               (ab \o c)[i] = IF i <= Len(ab) THEN ab[i] ELSE c[i - Len(ab)]
      BY <1>3, <1>4, ConcatProperties
    <2> QED
      BY <1>3, <1>4, <2>1
  <1>6. \A i \in 1 .. NONCE_SIZE : (ab \o c)[i] = a[i]
    BY <1>4, <1>5
  <1>7. \A i \in 1 .. size : (ab \o c)[NONCE_SIZE + i] = b[i]
    <2> TAKE i \in 1 .. size
    <2>1. NONCE_SIZE + i \in 1 .. NONCE_SIZE + size /\ NONCE_SIZE + i - NONCE_SIZE = i
          /\ NONCE_SIZE + i \in 1 .. NONCE_SIZE + size + TAG_SIZE
      OBVIOUS
    <2> QED
      BY <1>4, <1>5, <2>1
  <1>8. \A i \in 1 .. TAG_SIZE : (ab \o c)[NONCE_SIZE + size + i] = c[i]
    <2> TAKE i \in 1 .. TAG_SIZE
    <2>1. /\ NONCE_SIZE + size + i \in 1 .. NONCE_SIZE + size + TAG_SIZE
          /\ NONCE_SIZE + size + i - (NONCE_SIZE + size) = i
          /\ ~(NONCE_SIZE + size + i <= NONCE_SIZE + size)
      OBVIOUS
    <2> DEFINE j == NONCE_SIZE + size + i
    <2>2. (ab \o c)[j] = IF j <= NONCE_SIZE + size THEN ab[j] ELSE c[j - (NONCE_SIZE + size)]
      BY <1>5, <2>1
    <2> QED
      BY <2>1, <2>2
  <1>9. EncryptPacket(n, size) = ab \o c
    BY DEF EncryptPacket, ab, a, b, c
  <1> QED
    BY <1>5, <1>6, <1>7, <1>8, <1>9 DEF a, b, c

\* What the host's encrypt returns ends with the text: none of it is a tag.
LEMMA HostBytes ==
    ASSUME SizesAssumption, NEW n \in Nat, NEW size \in Nat
    PROVE  LET data == Encrypt(n, size) IN
             /\ data \in Seq(Byte)
             /\ Len(data) = NONCE_SIZE + size
             /\ \A i \in 1 .. Len(data) : data[i].kind \in {"nonce", "text"}
  <1> USE DEF SizesAssumption
  <1> DEFINE a == Nonce(n)
             b == Text(n, size)
             c == Tag(n)
             bc == b \o c
             cut == SubSeq(bc, 1, size)
  <1>1. a \in Seq(Byte) /\ Len(a) = NONCE_SIZE /\ \A i \in 1 .. NONCE_SIZE : a[i].kind = "nonce"
    BY Parts
  <1>2. b \in Seq(Byte) /\ Len(b) = size /\ \A i \in 1 .. size : b[i].kind = "text"
    BY Parts
  <1>3. c \in Seq(Byte) /\ Len(c) = TAG_SIZE
    BY Parts
  <1> HIDE DEF a, b, c
  <1>4. \A i \in 1 .. size : bc[i] = b[i]
    BY <1>2, <1>3, ConcatProperties
  <1> HIDE DEF bc
  <1>5. cut \in Seq(Byte) /\ Len(cut) = size /\ \A i \in 1 .. size : cut[i] = b[i]
    <2>1. \A i \in 1 .. size : bc[i] \in Byte
      BY <1>2, <1>4, ElementOfSeq
    <2>2. /\ cut \in Seq(Byte)
          /\ Len(cut) = IF 1 <= size THEN size - 1 + 1 ELSE 0
          /\ \A i \in 1 .. size - 1 + 1 : cut[i] = bc[1 + i - 1]
      BY <2>1, SubSeqProperties
    <2> HIDE DEF cut
    <2>3. Len(cut) = size
      BY <2>2
    <2>4. ASSUME NEW i \in 1 .. size PROVE cut[i] = b[i]
      <3>1. i \in 1 .. size - 1 + 1 /\ 1 + i - 1 = i
        OBVIOUS
      <3> QED
        BY <1>4, <2>2, <3>1
    <2> QED
      BY <2>2, <2>3, <2>4
  <1> HIDE DEF cut
  <1>6. /\ a \o cut \in Seq(Byte) /\ Len(a \o cut) = NONCE_SIZE + size
        /\ \A i \in 1 .. NONCE_SIZE + size :
             (a \o cut)[i] = IF i <= NONCE_SIZE THEN a[i] ELSE cut[i - NONCE_SIZE]
    BY <1>1, <1>5, ConcatProperties
  <1>7. \A i \in 1 .. NONCE_SIZE + size : (a \o cut)[i].kind \in {"nonce", "text"}
    <2> TAKE i \in 1 .. NONCE_SIZE + size
    <2>1. CASE i <= NONCE_SIZE
      BY <1>1, <1>6, <2>1
    <2>2. CASE ~(i <= NONCE_SIZE)
      <3>1. i - NONCE_SIZE \in 1 .. size
        BY <2>2
      <3> QED
        BY <1>2, <1>5, <1>6, <2>2, <3>1
    <2> QED
      BY <2>1, <2>2
  <1>8. Encrypt(n, size) = a \o cut
    BY DEF Encrypt, a, b, c, bc, cut
  <1> QED
    BY <1>6, <1>7, <1>8

-----------------------------------------------------------------------------
(* What decrypt opens. *)

\* Slices of sequences of bytes.
LEMMA Slice ==
    ASSUME NEW data \in Seq(Byte), NEW part \in Seq(Byte), NEW skip \in Nat,
           skip + Len(part) <= Len(data),
           \A i \in 1 .. Len(part) : data[skip + i] = part[i]
    PROVE  SubSeq(data, skip + 1, skip + Len(part)) = part
  <1> DEFINE s == SubSeq(data, skip + 1, skip + Len(part))
  <1>1. Len(part) \in Nat /\ Len(data) \in Nat
    OBVIOUS
  <1>2. \A i \in skip + 1 .. skip + Len(part) : data[i] \in Byte
    BY <1>1
  <1>3. /\ s \in Seq(Byte)
        /\ Len(s) = IF skip + 1 <= skip + Len(part) THEN skip + Len(part) - (skip + 1) + 1 ELSE 0
        /\ \A i \in 1 .. skip + Len(part) - (skip + 1) + 1 : s[i] = data[skip + 1 + i - 1]
    BY <1>1, <1>2, SubSeqProperties
  <1> HIDE DEF s
  <1>4. Len(s) = Len(part)
    BY <1>1, <1>3
  <1>5. ASSUME NEW i \in 1 .. Len(part) PROVE s[i] = part[i]
    <2>1. i \in 1 .. skip + Len(part) - (skip + 1) + 1 /\ skip + 1 + i - 1 = skip + i
      BY <1>1
    <2> QED
      BY <1>3, <2>1
  <1>6. s = part
    BY <1>3, <1>4, <1>5, SeqEqual
  <1> QED
    BY <1>6 DEF s

\* A packet the phone sealed opens with its key, and with no other.
LEMMA PhoneOpens ==
    ASSUME SizesAssumption, SealingsInv, NEW n \in 1 .. Len(sealings), FromPhone(n), NEW k \in Nat
    PROVE  Decrypt(k, sealings[n].bytes) <=> k = sealings[n].key
  <1> USE DEF SizesAssumption
  <1> DEFINE size == sealings[n].size
             data == EncryptPacket(n, size)
  <1>1. n \in Nat /\ size \in Nat /\ sealings[n].bytes = data
    BY SealingAt DEF FromPhone
  <1> HIDE DEF size
  <1>2. /\ data \in Seq(Byte)
        /\ Len(data) = NONCE_SIZE + size + TAG_SIZE
        /\ \A i \in 1 .. NONCE_SIZE : data[i] = Nonce(n)[i]
        /\ \A i \in 1 .. size : data[NONCE_SIZE + i] = Text(n, size)[i]
        /\ \A i \in 1 .. TAG_SIZE : data[NONCE_SIZE + size + i] = Tag(n)[i]
    BY <1>1, PhoneBytes
  <1> HIDE DEF data
  <1>3. /\ Nonce(n) \in Seq(Byte) /\ Len(Nonce(n)) = NONCE_SIZE
        /\ Text(n, size) \in Seq(Byte) /\ Len(Text(n, size)) = size
        /\ Tag(n) \in Seq(Byte) /\ Len(Tag(n)) = TAG_SIZE
    <2>1. NONCE_SIZE \in Nat /\ TAG_SIZE \in Nat /\ n \in Nat /\ size \in Nat
      BY <1>1
    <2>2. Nonce(n) \in Seq(Byte) /\ Len(Nonce(n)) = NONCE_SIZE
      BY <2>1, NonceBytes
    <2>3. Text(n, size) \in Seq(Byte) /\ Len(Text(n, size)) = size
      BY <2>1, TextBytes
    <2>4. Tag(n) \in Seq(Byte) /\ Len(Tag(n)) = TAG_SIZE
      BY <2>1, TagBytes
    <2> QED
      BY <2>2, <2>3, <2>4
  <1>4. SubSeq(data, 1, NONCE_SIZE) = Nonce(n)
    <2>1. SubSeq(data, 0 + 1, 0 + Len(Nonce(n))) = Nonce(n)
      <3>1. \A i \in 1 .. Len(Nonce(n)) : data[0 + i] = Nonce(n)[i]
        BY <1>2, <1>3
      <3>2. 0 + Len(Nonce(n)) <= Len(data)
        BY <1>1, <1>2, <1>3
      <3> QED
        BY <1>2, <1>3, <3>1, <3>2, Slice
    <2> QED
      BY <1>3, <2>1
  <1>5. SubSeq(data, NONCE_SIZE + 1, Len(data) - TAG_SIZE) = Text(n, size)
    <2>1. SubSeq(data, NONCE_SIZE + 1, NONCE_SIZE + Len(Text(n, size))) = Text(n, size)
      <3>1. NONCE_SIZE + Len(Text(n, size)) <= Len(data)
        BY <1>1, <1>2, <1>3
      <3> QED
        BY <1>2, <1>3, <3>1, Slice
    <2>2. Len(data) - TAG_SIZE = NONCE_SIZE + Len(Text(n, size))
      BY <1>1, <1>2, <1>3
    <2> QED
      BY <2>1, <2>2
  <1>6. SubSeq(data, Len(data) - TAG_SIZE + 1, Len(data)) = Tag(n)
    <2> DEFINE skip == NONCE_SIZE + size
    <2>1. skip \in Nat /\ Len(data) - TAG_SIZE + 1 = skip + 1 /\ Len(data) = skip + Len(Tag(n))
      BY <1>1, <1>2, <1>3
    <2>2. \A i \in 1 .. Len(Tag(n)) : data[skip + i] = Tag(n)[i]
      BY <1>2, <1>3
    <2> HIDE DEF skip
    <2>3. SubSeq(data, skip + 1, skip + Len(Tag(n))) = Tag(n)
      <3>1. skip + Len(Tag(n)) <= Len(data)
        BY <1>3, <2>1
      <3> QED
        BY <1>2, <1>3, <2>1, <2>2, <3>1, Slice
    <2> QED
      BY <2>1, <2>3
  <1>7. Decrypt(k, data) <=> Opens(k, Nonce(n), Text(n, size), Tag(n))
    <2>1. Len(data) >= NONCE_SIZE + TAG_SIZE
      BY <1>1, <1>2
    <2> QED
      BY <1>4, <1>5, <1>6, <2>1 DEF Decrypt
  <1>8. ASSUME NEW m \in 1 .. Len(sealings), Tag(n) = Tag(m) PROVE m = n
    <2>1. m \in Nat /\ 1 \in 1 .. TAG_SIZE
      BY DEF SealingsInv
    <2>2. Tag(n)[1].of = n /\ Tag(m)[1].of = m
      BY <1>1, <2>1, Parts
    <2> QED
      BY <1>8, <2>2
  <1>9. Opens(k, Nonce(n), Text(n, size), Tag(n)) <=> k = sealings[n].key
    BY <1>8 DEF Opens, size
  <1> QED
    BY <1>1, <1>7, <1>9

\* A packet the host sealed opens with no key: what decrypt takes for the tag
\* is the end of the text, or of the nonce.
LEMMA HostNeverOpens ==
    ASSUME SizesAssumption, SealingsInv, NEW n \in 1 .. Len(sealings), ~FromPhone(n), NEW k \in Nat
    PROVE  ~Decrypt(k, sealings[n].bytes)
  <1> USE DEF SizesAssumption
  <1> DEFINE data == sealings[n].bytes
             last == SubSeq(data, Len(data) - TAG_SIZE + 1, Len(data))
  <1>1. n \in Nat /\ sealings[n].size \in Nat /\ data = Encrypt(n, sealings[n].size)
    BY SealingAt DEF FromPhone
  <1>2. /\ data \in Seq(Byte)
        /\ \A i \in 1 .. Len(data) : data[i].kind \in {"nonce", "text"}
    BY <1>1, HostBytes
  <1> HIDE DEF data
  <1>3. SUFFICES ASSUME Len(data) >= NONCE_SIZE + TAG_SIZE,
                        NEW m \in 1 .. Len(sealings), last = Tag(m)
                 PROVE  FALSE
    BY DEF Decrypt, Opens, data
  <1>4. Len(data) \in Nat /\ m \in Nat /\ Len(data) - TAG_SIZE + 1 \in 1 .. Len(data)
    BY <1>2, <1>3 DEF SealingsInv
  <1>5. last[1] = data[Len(data) - TAG_SIZE + 1]
    <2> DEFINE from == Len(data) - TAG_SIZE + 1
    <2>1. from \in Int /\ Len(data) \in Int /\ \A i \in from .. Len(data) : data[i] \in Byte
      BY <1>2, <1>4
    <2>2. 1 \in 1 .. Len(data) - from + 1 /\ from + 1 - 1 = from
      BY <1>4
    <2> HIDE DEF from
    <2>3. SubSeq(data, from, Len(data))[1] = data[from + 1 - 1]
      BY <2>1, <2>2, SubSeqProperties
    <2> QED
      BY <2>2, <2>3 DEF from
  <1>6. last[1].kind \in {"nonce", "text"}
    BY <1>2, <1>4, <1>5
  <1>7. Tag(m)[1].kind = "tag"
    <2>1. 1 \in 1 .. TAG_SIZE
      OBVIOUS
    <2>2. m \in Nat /\ 0 \in Nat
      BY <1>4
    <2>3. \A i \in 1 .. TAG_SIZE : Tag(m)[i].kind = "tag"
      BY <2>2, Parts
    <2> QED
      BY <2>1, <2>3
  <1> QED
    BY <1>3, <1>6, <1>7

-----------------------------------------------------------------------------
(* The invariant. *)

LEMMA InvInit == ASSUME SizesAssumption PROVE Init => Inv
  BY DEF Init, Inv, SealingsInv, OpensPhonePackets, NoOpening, Ends

LEMMA InvSeal ==
    ASSUME SizesAssumption, Inv, NEW e \in Ends, NEW size \in Sizes, Seal(e, size)
    PROVE  Inv'
  <1> USE DEF SizesAssumption
  <1> DEFINE n == Len(sealings) + 1
             new == [key |-> key[e], size |-> size,
                     bytes |-> IF e = "host" THEN Encrypt(n, size) ELSE EncryptPacket(n, size)]
  <1>1. sealings \in Seq(Sealing) /\ n \in Nat /\ size \in Nat /\ Len(sealings) \in Nat
    BY DEF Inv, SealingsInv, Sealing, Byte
  <1>2. sealings' = Append(sealings, new) /\ UNCHANGED <<aes_handle, key, drawn, opening>>
    BY DEF Seal
  <1>3. Encrypt(n, size) \in Seq(Byte) /\ EncryptPacket(n, size) \in Seq(Byte)
    <2> HIDE DEF n
    <2> QED
      BY <1>1, PhoneBytes, HostBytes
  <1>4. new \in Sealing /\ new.size = size
        /\ new.bytes \in {EncryptPacket(n, size), Encrypt(n, size)}
    BY <1>3 DEF Sealing, Inv, SealingsInv
  <1> HIDE DEF new
  <1>5. /\ sealings' \in Seq(Sealing) /\ Len(sealings') = n
        /\ \A i \in 1 .. Len(sealings) : sealings'[i] = sealings[i]
        /\ sealings'[n] = new
    BY <1>1, <1>2, <1>4, AppendProperties
  <1>6. SealingsInv'
    <2>1. \A i \in 1 .. n : i \in 1 .. Len(sealings) \/ i = n
      BY <1>1
    <2>2. \A i \in 1 .. Len(sealings') :
             sealings'[i].bytes \in {EncryptPacket(i, sealings'[i].size), Encrypt(i, sealings'[i].size)}
      <3> TAKE i \in 1 .. Len(sealings')
      <3>1. CASE i \in 1 .. Len(sealings)
        BY <1>5, <3>1 DEF Inv, SealingsInv
      <3>2. CASE i = n
        BY <1>4, <1>5, <3>2
      <3> QED
        BY <1>5, <2>1, <3>1, <3>2
    <2>3. opening'.of \in 0 .. Len(sealings')
      BY <1>1, <1>2, <1>5 DEF Inv, SealingsInv
    <2> QED
      BY <1>2, <1>5, <2>2, <2>3 DEF Inv, SealingsInv, Sealing, Byte
  <1>7. OpensPhonePackets'
    <2>1. opening.of /= 0 => opening.of \in 1 .. Len(sealings)
      BY <1>1 DEF Inv, SealingsInv
    <2> QED
      BY <1>2, <1>5, <2>1 DEF Inv, OpensPhonePackets, FromPhone
  <1> QED
    BY <1>6, <1>7 DEF Inv

LEMMA InvOpen ==
    ASSUME SizesAssumption, Inv, NEW e \in Ends, NEW n \in 1 .. Len(sealings), Open(e, n)
    PROVE  Inv'
  <1>1. /\ opening' = [of |-> n, sameKey |-> key[e] = sealings[n].key,
                       ok |-> Decrypt(key[e], sealings[n].bytes)]
        /\ UNCHANGED <<aes_handle, key, drawn, sealings>>
    BY DEF Open
  <1>2. n \in 0 .. Len(sealings) /\ key[e] \in Nat
    BY DEF Inv, SealingsInv
  <1>3. SealingsInv'
    BY <1>1, <1>2 DEF Inv, SealingsInv, Encrypt, EncryptPacket
  <1>4. Decrypt(key[e], sealings[n].bytes) <=> key[e] = sealings[n].key /\ FromPhone(n)
    BY <1>2, PhoneOpens, HostNeverOpens DEF Inv
  <1>5. OpensPhonePackets'
    BY <1>1, <1>4 DEF OpensPhonePackets, FromPhone
  <1> QED
    BY <1>3, <1>5 DEF Inv

LEMMA InvStep == ASSUME SizesAssumption PROVE Inv /\ [Next]_vars => Inv'
  <1> SUFFICES ASSUME Inv, [Next]_vars PROVE Inv'
    OBVIOUS
  <1>1. ASSUME NEW e \in Ends, InitializeSession(e) \/ \E other \in Ends \ {e} : SetSessionKey(e, other)
        PROVE  Inv'
    <2>1. UNCHANGED <<sealings, opening>>
      BY <1>1 DEF InitializeSession, SetSessionKey
    <2>2. key \in [Ends -> Nat] /\ drawn \in Nat
      BY DEF Inv, SealingsInv
    <2>3. key' \in [Ends -> Nat] /\ drawn' \in Nat
      BY <1>1, <2>2 DEF InitializeSession, SetSessionKey
    <2> QED
      BY <2>1, <2>3 DEF Inv, SealingsInv, OpensPhonePackets, FromPhone, Encrypt, EncryptPacket
  <1>2. CASE UNCHANGED vars
    BY <1>2 DEF vars, Inv, SealingsInv, OpensPhonePackets, FromPhone
  <1> QED
    BY <1>1, <1>2, InvSeal, InvOpen DEF Next

\* Whatever the sizes and the keys: a sealed packet opens at an end exactly
\* when that end has its key and the phone sealed it.  What the host seals
\* never opens, which is what the run secure_channel finds for one size.
THEOREM OnlyPhonePacketsOpen ==
    ASSUME SizesAssumption
    PROVE  Spec => []OpensPhonePackets
  <1>1. Inv => OpensPhonePackets
    BY DEF Inv
  <1> QED
    BY <1>1, InvInit, InvStep, PTL DEF Spec
=============================================================================
