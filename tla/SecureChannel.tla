---------------------------- MODULE SecureChannel ----------------------------
(***************************************************************************)
(* The two ends of the encrypted channel: VRSecureChannel on the phone and *)
(* phonevr::SecureChannel on the host, which seal a packet with AES-GCM    *)
(* and open what the other sealed.  No caller of either end seals packets  *)
(* yet; how a key gets from one end to the other is external.              *)
(*                                                                         *)
(* A sealed packet is a sequence of bytes, of which the model keeps to     *)
(* which part of which sealing a byte belongs and where it is in it: that  *)
(* is what the slices of decrypt can get right or wrong.  The ciphers are  *)
(* external: one opens exactly the nonce, the text and the tag that were   *)
(* made together, with the key they were made with.                        *)
(***************************************************************************)
EXTENDS Naturals, Sequences

CONSTANTS
    NONCE_SIZE, TAG_SIZE,   \* bytes of a nonce and of a tag
    Sizes,                  \* sizes of the packets to be sealed
    MaxKeys, MaxPackets     \* session keys drawn, packets sealed

VARIABLES
    aes_handle,     \* aes_handle_ of the host's end is not null
    key,            \* sessionKey and key_; 0 while there is none
    drawn,          \* session keys drawn so far
    sealings,       \* the packets sealed: with which key, of which size, the bytes
    opening         \* the last call of decrypt

vars == <<aes_handle, key, drawn, sealings, opening>>

Ends == {"phone", "host"}

Part(kind, n, size) == [i \in 1 .. size |-> [kind |-> kind, of |-> n, at |-> i]]
Nonce(n)     == Part("nonce", n, NONCE_SIZE)
Text(n, size) == Part("text", n, size)
Tag(n)       == Part("tag", n, TAG_SIZE)

NoOpening == [of |-> 0, sameKey |-> FALSE, ok |-> FALSE]

\* The constructor: the algorithm or its mode may not be there.
Init ==
    /\ aes_handle \in BOOLEAN
    /\ key = [e \in Ends |-> 0]
    /\ drawn = 0
    /\ sealings = <<>>
    /\ opening = NoOpening

\* initializeSession, initialize_session (which throws when no key is drawn).
InitializeSession(e) ==
    /\ drawn < MaxKeys
    /\ drawn' = drawn + 1
    /\ key' = [key EXCEPT ![e] = drawn']
    /\ UNCHANGED <<aes_handle, sealings, opening>>

\* setSessionKey, set_session_key, with the key the other end returned.  The
\* host's throws for a key of another size and changes nothing.
SetSessionKey(e, other) ==
    /\ key[other] /= 0
    /\ key' = [key EXCEPT ![e] = key[other]]
    /\ UNCHANGED <<aes_handle, drawn, sealings, opening>>

Ready(e) == key[e] /= 0 /\ (e = "host" => aes_handle)

\* encryptPacket: nonce, ciphertext and tag.
EncryptPacket(n, size) == Nonce(n) \o Text(n, size) \o Tag(n)

\* encrypt: the tag is written behind the ciphertext, but the size BCryptEncrypt
\* returns, and the result is cut to, is that of the ciphertext alone.
Encrypt(n, size) ==
    LET ciphertext      == Text(n, size) \o Tag(n)
        ciphertext_size == size
    IN  Nonce(n) \o SubSeq(ciphertext, 1, ciphertext_size)

Seal(e, size) ==
    /\ Ready(e)
    /\ Len(sealings) < MaxPackets
    /\ LET n == Len(sealings) + 1 IN
         sealings' = Append(sealings,
             [key |-> key[e], size |-> size,
              bytes |-> IF e = "host" THEN Encrypt(n, size) ELSE EncryptPacket(n, size)])
    /\ UNCHANGED <<aes_handle, key, drawn, opening>>

\* AES-GCM, of whatever end.
Opens(k, nonce, text, tag) ==
    \E n \in 1 .. Len(sealings) :
        /\ sealings[n].key = k
        /\ nonce = Nonce(n) /\ text = Text(n, sealings[n].size) /\ tag = Tag(n)

\* decryptPacket and decrypt: the first bytes are the nonce, the last the tag.
Decrypt(k, data) ==
    /\ Len(data) >= NONCE_SIZE + TAG_SIZE
    /\ Opens(k, SubSeq(data, 1, NONCE_SIZE),
                SubSeq(data, NONCE_SIZE + 1, Len(data) - TAG_SIZE),
                SubSeq(data, Len(data) - TAG_SIZE + 1, Len(data)))

Open(e, n) ==
    /\ Ready(e)
    /\ opening' = [of |-> n, sameKey |-> key[e] = sealings[n].key,
                   ok |-> Decrypt(key[e], sealings[n].bytes)]
    /\ UNCHANGED <<aes_handle, key, drawn, sealings>>

Next ==
    \E e \in Ends :
        \/ InitializeSession(e)
        \/ \E other \in Ends \ {e} : SetSessionKey(e, other)
        \/ \E size \in Sizes : Seal(e, size)
        \/ \E n \in 1 .. Len(sealings) : Open(e, n)

Spec == Init /\ [][Next]_vars

\* What one end has sealed opens at an end that has the key: the sealed packet
\* is the nonce, the ciphertext and the tag, as the protocol's description says.
SealedOpens == opening.sameKey => opening.ok

\* A packet the phone's encryptPacket sealed: its three parts are all there.
FromPhone(n) == sealings[n].bytes = EncryptPacket(n, sealings[n].size)

\* decrypt, at either end, opens exactly the packets the phone sealed with the
\* key it has: the slices are right, and only what encrypt cuts off is missing.
OpensPhonePackets ==
    opening.of /= 0 => (opening.ok <=> opening.sameKey /\ FromPhone(opening.of))

-----------------------------------------------------------------------------
(* The inductive invariant. *)

Byte    == [kind : {"nonce", "text", "tag"}, of : Nat, at : Nat]
Sealing == [key : Nat, size : Nat, bytes : Seq(Byte)]

SealingsInv ==
    /\ sealings \in Seq(Sealing)
    /\ \A n \in 1 .. Len(sealings) :
         sealings[n].bytes \in {EncryptPacket(n, sealings[n].size), Encrypt(n, sealings[n].size)}
    /\ opening.of \in 0 .. Len(sealings)
    /\ key \in [Ends -> Nat] /\ drawn \in Nat

Inv == SealingsInv /\ OpensPhonePackets
=============================================================================
