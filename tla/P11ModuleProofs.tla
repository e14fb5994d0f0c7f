-------------------------- MODULE P11ModuleProofs --------------------------
(***************************************************************************)
(* Proofs about P11Module, for every number of slots, of sessions, of      *)
(* secrets and of generations a handle tells apart, and for applications   *)
(* that make any of its calls in any order, with saves that fail and a     *)
(* process that is killed.                                                 *)
(***************************************************************************)
EXTENDS P11Module, FiniteSetTheorems, SequenceTheorems, TLAPS

SlotRec == [state : {"UNINIT", "EMPTY", "LOADED"}, gen : Nat, key : Nat,
            alg : {"none", "sig", "kem"}, user_pin : BOOLEAN]

CoreRec == [slot : Slots, role : {"PUBLIC", "USER", "SO"}]

SessionRec ==
  [in_use : BOOLEAN, sess : Nat, slot : Slots, find : Seq(Issued),
   finding : BOOLEAN, sign : Message, verify : Message, enc : Aead, dec : Aead]

SecretRec == [in_use : BOOLEAN, owner : 0..MAX_P11_SESSIONS, id : Nat, sess : Nat]

CountsOK ==
  /\ g_init \in BOOLEAN
  /\ opens \in Nat /\ nkeys \in Nat /\ alive \subseteq 1..nkeys

TokenOK(t) ==
  /\ t \in [Slots -> SlotRec]
  /\ \A s \in Slots : t[s].key # 0 <=> t[s].state = "LOADED"

TokensOK == TokenOK(tok) /\ TokenOK(disk)

\* A handle was made with the low bits of its generation; the slot has not gone back
\* since, and while it is at that generation it holds the key of the handle.
NamedOK(x) ==
  /\ x \in Issued
  /\ ~IsSecret(x.obj) =>
       LET s == tok[x.obj[2]] IN
       /\ x.obj[3] = x.gen % Gens
       /\ x.gen <= s.gen
       /\ x.gen = s.gen => s.state = "LOADED" /\ s.key = x.key

\* An operation that was not cut holds the parts given since its Init, and none when it
\* is over; all it holds was given in this session.
MessageOK(m, sess) ==
  /\ m \in Message
  /\ ~m.cut => m.acc = IF m.active THEN m.parts ELSE <<>>
  /\ \A i \in 1..Len(m.acc) : m.acc[i] = sess

AeadOK(c) ==
  /\ c \in Aead /\ c.want <= nkeys
  /\ c.active => /\ c.key \in Secrets
                 /\ c.want \in alive => g_secrets[c.key].id = c.want

SessionOK(x) ==
  /\ x \in SessionRec
  /\ ~x.in_use => x = BlankSession
  /\ MessageOK(x.sign, x.sess) /\ MessageOK(x.verify, x.sess)
  /\ AeadOK(x.enc) /\ AeadOK(x.dec)
  /\ \A i \in 1..Len(x.find) : NamedOK(x.find[i])

SessionsOK ==
  /\ g_sessions \in [Sessions -> SessionRec]
  /\ \A h \in Sessions : SessionOK(g_sessions[h])

\* The sessions of the slot manager and the open entries are paired.
CoreOK ==
  /\ core \in [DOMAIN core -> CoreRec]
  /\ \A c \in DOMAIN core :
       c \in 1..opens /\ \E h \in Sessions : g_sessions[h].in_use /\ g_sessions[h].sess = c
  /\ \A h \in Sessions : g_sessions[h].in_use =>
       /\ g_sessions[h].sess \in DOMAIN core
       /\ core[g_sessions[h].sess].slot = g_sessions[h].slot
       /\ g_init
  /\ \A h, j \in Sessions :
       g_sessions[h].in_use /\ g_sessions[j].in_use /\ g_sessions[h].sess = g_sessions[j].sess
         => h = j

SecretsOK ==
  /\ g_secrets \in [Secrets -> SecretRec]
  /\ \A i \in Secrets :
       LET x == g_secrets[i] IN
       /\ ~x.in_use => x = NoSecret
       /\ x.in_use => /\ x.owner \in Sessions /\ x.id \in 1..nkeys
                      /\ g_sessions[x.owner].in_use
                      /\ g_sessions[x.owner].sess = x.sess

IssuedOK ==
  /\ \A x \in issued : NamedOK(x)
  /\ ~g_init => issued = {}

PInv == CountsOK /\ TokensOK /\ CoreOK /\ SessionsOK /\ SecretsOK /\ IssuedOK
-----------------------------------------------------------------------------
(* The operators of the model.                                              *)

\* The numbers of entries are positive.
LEMMA Constants ==
  /\ NumSlots \in Nat \ {0} /\ MAX_P11_SESSIONS \in Nat \ {0}
  /\ MAX_SECRETS \in Nat \ {0} /\ Gens \in Nat \ {0}
BY ConstantsAssumption

\* Two generations with the same low bits are a multiple of Gens apart: what
\* core_handle_of cannot tell.
LEMMA SameLowBits ==
  ASSUME NEW a \in Nat, NEW b \in Nat, a % Gens = b % Gens
  PROVE  (a - b) % Gens = 0
<1>1. Gens \in Nat \ {0}
  BY Constants
<1>2. a = Gens * (a \div Gens) + (a % Gens) /\ b = Gens * (b \div Gens) + (b % Gens)
  BY <1>1
<1> DEFINE k == (a \div Gens) - (b \div Gens)
<1>3. k \in Int /\ a - b = Gens * k
  BY <1>1, <1>2
<1>4. \A j \in Int : (Gens * j) % Gens = 0
  BY <1>1
<1> HIDE DEF k
<1>5. (Gens * k) % Gens = 0
  BY <1>3, <1>4
<1> QED BY <1>3, <1>5

\* A handle names a session object by its entry, or a slot and low bits.
LEMMA HandleParts ==
  ASSUME NEW o \in Handles
  PROVE  \/ IsSecret(o) /\ o[2] \in Secrets
         \/ ~IsSecret(o) /\ o[2] \in Slots /\ o[3] \in 0..(Gens - 1)
                         /\ o[1] \in {"priv", "pub"}
BY DEF Handles, IsSecret

\* p11_handle makes a handle of a slot as it is.
LEMMA HandleMade ==
  ASSUME TokenOK(tok), NEW s \in Slots, NEW kind \in {"priv", "pub"}
  PROVE  /\ p11_handle(kind, s) \in Handles /\ ~IsSecret(p11_handle(kind, s))
         /\ p11_handle(kind, s)[2] = s /\ p11_handle(kind, s)[3] = tok[s].gen % Gens
<1>1. tok[s].gen \in Nat
  BY DEF TokenOK, SlotRec
<1>2. tok[s].gen % Gens \in 0..(Gens - 1)
  BY <1>1, Constants
<1> QED BY <1>2 DEF p11_handle, Handles, IsSecret

\* So does the list of secrets.
LEMMA SecretHandle ==
  ASSUME NEW i \in Secrets
  PROVE  <<"secret", i>> \in Handles /\ IsSecret(<<"secret", i>>)
BY DEF Handles, IsSecret

\* A handle of a loaded slot, returned with the key of the slot, is as it should be.
LEMMA NamedMade ==
  ASSUME TokenOK(tok), NEW s \in Slots, NEW kind \in {"priv", "pub"},
         tok[s].state = "LOADED"
  PROVE  NamedOK(Named(p11_handle(kind, s), tok[s].key))
<1> DEFINE o == p11_handle(kind, s)
<1>1. o \in Handles /\ ~IsSecret(o) /\ o[2] = s /\ o[3] = tok[s].gen % Gens
  BY HandleMade
<1>2. tok[s].gen \in Nat /\ tok[s].key \in Nat
  BY DEF TokenOK, SlotRec
<1> HIDE DEF o
<1>3. Named(o, tok[s].key) = [obj |-> o, key |-> tok[s].key, gen |-> tok[s].gen]
  BY <1>1 DEF Named
<1>4. NamedOK(Named(o, tok[s].key))
  BY <1>1, <1>2, <1>3 DEF NamedOK, Issued
<1> QED BY <1>4 DEF o

\* A slot does not go back a generation, and only a slot that is not LOADED, or moves to
\* another generation, gets another key.
TokGrows ==
  \A s \in Slots :
    /\ tok[s].gen <= tok'[s].gen
    /\ tok[s].gen = tok'[s].gen /\ tok[s].state = "LOADED" =>
         tok'[s].state = "LOADED" /\ tok'[s].key = tok[s].key

\* Numbers of keys are not given twice, and an entry keeps its secret while it lives.
SecretsGrow ==
  /\ nkeys <= nkeys'
  /\ \A k \in alive' : k <= nkeys =>
       k \in alive /\ \A i \in Secrets : g_secrets[i].id = k => g_secrets'[i].id = k

\* A handle stays as it should be.
LEMMA NamedKept ==
  ASSUME TokensOK, TokensOK', TokGrows, NEW x, NamedOK(x)
  PROVE  NamedOK(x)'
<1>1. x \in Issued /\ x.obj \in Handles /\ x.gen \in Nat
  BY DEF NamedOK, Issued
<1> SUFFICES ASSUME ~IsSecret(x.obj)
             PROVE  LET s == tok'[x.obj[2]] IN
                    /\ x.obj[3] = x.gen % Gens
                    /\ x.gen <= s.gen
                    /\ x.gen = s.gen => s.state = "LOADED" /\ s.key = x.key
  BY <1>1 DEF NamedOK
<1> DEFINE s == x.obj[2]
<1>2. s \in Slots
  BY <1>1, HandleParts
<1> HIDE DEF s
<1>3. tok[s].gen \in Nat /\ tok'[s].gen \in Nat
  BY <1>2 DEF TokensOK, TokenOK, SlotRec
<1>4. /\ x.obj[3] = x.gen % Gens
      /\ x.gen <= tok[s].gen
      /\ x.gen = tok[s].gen => tok[s].state = "LOADED" /\ tok[s].key = x.key
  BY DEF NamedOK, s
<1>5. /\ tok[s].gen <= tok'[s].gen
      /\ tok[s].gen = tok'[s].gen /\ tok[s].state = "LOADED" =>
           tok'[s].state = "LOADED" /\ tok'[s].key = tok[s].key
  BY <1>2 DEF TokGrows
<1> QED BY <1>1, <1>3, <1>4, <1>5 DEF s

\* So does an AEAD context.
LEMMA AeadKept ==
  ASSUME CountsOK, CountsOK', SecretsGrow, NEW c, AeadOK(c)
  PROVE  AeadOK(c)'
<1>1. c \in Aead /\ c.want \in Nat /\ c.want <= nkeys /\ nkeys \in Nat /\ nkeys' \in Nat
  BY DEF AeadOK, Aead, CountsOK
<1>2. c.want <= nkeys'
  BY <1>1 DEF SecretsGrow
<1>3. ASSUME c.active, c.want \in alive'
      PROVE  c.key \in Secrets /\ g_secrets'[c.key].id = c.want
  BY <1>1, <1>3 DEF AeadOK, SecretsGrow
<1>4. c.active => c.key \in Secrets
  BY DEF AeadOK
<1> QED BY <1>1, <1>2, <1>3, <1>4 DEF AeadOK

\* So does a whole entry of the session table.
LEMMA SessionKept ==
  ASSUME TokensOK, TokensOK', TokGrows, CountsOK, CountsOK', SecretsGrow,
         NEW x, SessionOK(x)
  PROVE  SessionOK(x)'
<1>1. AeadOK(x.enc)' /\ AeadOK(x.dec)'
  BY AeadKept DEF SessionOK
<1>2. \A i \in 1..Len(x.find) : NamedOK(x.find[i])'
  BY NamedKept DEF SessionOK
<1> QED BY <1>1, <1>2 DEF SessionOK

\* A call that leaves the table, or changes it to entries as they should be.
LEMMA SessionsKept ==
  ASSUME TokensOK, TokensOK', TokGrows, CountsOK, CountsOK', SecretsGrow,
         SessionsOK, UNCHANGED g_sessions
  PROVE  SessionsOK'
<1>1. \A h \in Sessions : SessionOK(g_sessions[h])'
  <2> TAKE h \in Sessions
  <2> DEFINE x == g_sessions[h]
  <2>1. SessionOK(x)
    BY DEF SessionsOK
  <2>2. g_sessions'[h] = g_sessions[h]
    OBVIOUS
  <2> QED BY <2>1, <2>2, SessionKept
<1> QED BY <1>1 DEF SessionsOK

\* A token nobody touches does not go back, and secrets nobody touches stay.
LEMMA TokSame == ASSUME TokensOK, UNCHANGED tok PROVE TokGrows
<1>1. \A s \in Slots : tok[s].gen \in Nat
  BY DEF TokensOK, TokenOK, SlotRec
<1> QED BY <1>1 DEF TokGrows

\* The same for the secrets.
LEMMA SecretsSame ==
  ASSUME CountsOK, UNCHANGED <<nkeys, alive, g_secrets>>
  PROVE  SecretsGrow
<1>1. nkeys <= nkeys' /\ alive' = alive /\ g_secrets' = g_secrets
  BY DEF CountsOK
<1> QED BY <1>1 DEF SecretsGrow

\* An entry stays open, for the same slot and the same session of the slot manager.
SameUse(x, y) == y.in_use = x.in_use /\ y.sess = x.sess /\ y.slot = x.slot

\* As long as every entry does, entries and sessions of the slot manager stay paired and
\* the secrets have their owners.
LEMMA OwnersKept ==
  ASSUME CountsOK, CountsOK', CoreOK, SecretsOK, nkeys <= nkeys',
         UNCHANGED <<core, opens, g_init, g_secrets>>,
         \A h \in Sessions : SameUse(g_sessions[h], g_sessions'[h])
  PROVE  CoreOK' /\ SecretsOK'
<1>1. CoreOK'
  BY DEF CoreOK, SameUse
<1>2. SecretsOK'
  <2>1. g_secrets' = g_secrets /\ nkeys \in Nat /\ nkeys' \in Nat
    BY DEF CountsOK
  <2>2. \A i \in 1..nkeys : i \in 1..nkeys'
    BY <2>1
  <2> QED BY <2>1, <2>2 DEF SecretsOK, SameUse, Sessions
<1> QED BY <1>1, <1>2

\* A call that changes what one open session has in progress keeps the invariant if it
\* leaves the entry as it should be.
LEMMA SetSessionKeeps ==
  ASSUME PInv, NEW h \in Sessions, NEW y, SessionOK(y), SameUse(g_sessions[h], y),
         g_init, SetSession(h, y), disk' \in {tok, disk},
         \A x \in issued' : NamedOK(x),
         UNCHANGED <<g_init, tok, core, g_secrets, alive, opens, nkeys>>
  PROVE  PInv'
<1>1. CountsOK' /\ TokensOK'
  BY DEF PInv, CountsOK, TokensOK, TokenOK
<1>2. TokGrows /\ SecretsGrow
  BY TokSame, SecretsSame DEF PInv
<1>3. g_sessions \in [Sessions -> SessionRec] /\ y \in SessionRec
      /\ g_sessions' = [g_sessions EXCEPT ![h] = y]
  BY DEF PInv, SessionsOK, SessionOK, SetSession
<1>4. SessionsOK'
  <2>1. SessionOK(y)'
    BY <1>1, <1>2, SessionKept DEF PInv
  <2>2. \A j \in Sessions : SessionOK(g_sessions[j])'
    <3> TAKE j \in Sessions
    <3>1. CASE j = h
      BY <1>3, <2>1, <3>1
    <3>2. CASE j # h
      <4>1. g_sessions'[j] = g_sessions[j] /\ SessionOK(g_sessions[j])
        BY <1>3, <3>2 DEF PInv, SessionsOK
      <4> QED BY <1>1, <1>2, <4>1, SessionKept DEF PInv
    <3> QED BY <3>1, <3>2
  <2>3. g_sessions' \in [Sessions -> SessionRec]
    BY <1>3
  <2> QED BY <2>2, <2>3 DEF SessionsOK
<1>5. CoreOK' /\ SecretsOK'
  <2>1. \A j \in Sessions : SameUse(g_sessions[j], g_sessions'[j])
    BY <1>3 DEF SameUse
  <2>2. nkeys <= nkeys'
    BY DEF PInv, CountsOK
  <2> QED BY <1>1, <2>1, <2>2, OwnersKept DEF PInv
<1>6. IssuedOK'
  BY <1>1, <1>2, NamedKept DEF PInv, IssuedOK
<1> QED BY <1>1, <1>4, <1>5, <1>6 DEF PInv

\* An open entry with another message in progress, given in this session.
LEMMA WithMessage ==
  ASSUME NEW x, SessionOK(x), x.in_use, NEW f \in {"sign", "verify"},
         NEW m, MessageOK(m, x.sess)
  PROVE  SessionOK([x EXCEPT ![f] = m]) /\ SameUse(x, [x EXCEPT ![f] = m])
<1> DEFINE y == [x EXCEPT ![f] = m]
<1>1. x \in SessionRec /\ m \in Message
  BY DEF SessionOK, MessageOK
<1>2. CASE f = "sign"
  <2>1. /\ y \in SessionRec /\ y.in_use /\ y.sess = x.sess /\ y.slot = x.slot
        /\ y.in_use = x.in_use /\ y.find = x.find /\ y.enc = x.enc /\ y.dec = x.dec
        /\ y.sign = m /\ y.verify = x.verify
    BY <1>1, <1>2 DEF SessionRec
  <2> HIDE DEF y
  <2>2. SessionOK(y) /\ SameUse(x, y)
    BY <2>1 DEF SessionOK, SameUse
  <2> QED BY <2>2 DEF y
<1>3. CASE f = "verify"
  <2>1. /\ y \in SessionRec /\ y.in_use /\ y.sess = x.sess /\ y.slot = x.slot
        /\ y.in_use = x.in_use /\ y.find = x.find /\ y.enc = x.enc /\ y.dec = x.dec
        /\ y.verify = m /\ y.sign = x.sign
    BY <1>1, <1>3 DEF SessionRec
  <2> HIDE DEF y
  <2>2. SessionOK(y) /\ SameUse(x, y)
    BY <2>1 DEF SessionOK, SameUse
  <2> QED BY <2>2 DEF y
<1> QED BY <1>2, <1>3

\* An open entry with another AEAD operation in progress.
LEMMA WithAead ==
  ASSUME NEW x, SessionOK(x), x.in_use, NEW f \in {"enc", "dec"}, NEW c, AeadOK(c)
  PROVE  SessionOK([x EXCEPT ![f] = c]) /\ SameUse(x, [x EXCEPT ![f] = c])
<1> DEFINE y == [x EXCEPT ![f] = c]
<1>1. x \in SessionRec /\ c \in Aead
  BY DEF SessionOK, AeadOK
<1>2. CASE f = "enc"
  <2>1. /\ y \in SessionRec /\ y.in_use /\ y.sess = x.sess /\ y.slot = x.slot
        /\ y.in_use = x.in_use /\ y.find = x.find /\ y.enc = c /\ y.dec = x.dec
        /\ y.sign = x.sign /\ y.verify = x.verify
    BY <1>1, <1>2 DEF SessionRec
  <2> HIDE DEF y
  <2>2. SessionOK(y) /\ SameUse(x, y)
    BY <2>1 DEF SessionOK, SameUse
  <2> QED BY <2>2 DEF y
<1>3. CASE f = "dec"
  <2>1. /\ y \in SessionRec /\ y.in_use /\ y.sess = x.sess /\ y.slot = x.slot
        /\ y.in_use = x.in_use /\ y.find = x.find /\ y.dec = c /\ y.enc = x.enc
        /\ y.sign = x.sign /\ y.verify = x.verify
    BY <1>1, <1>3 DEF SessionRec
  <2> HIDE DEF y
  <2>2. SessionOK(y) /\ SameUse(x, y)
    BY <2>1 DEF SessionOK, SameUse
  <2> QED BY <2>2 DEF y
<1> QED BY <1>2, <1>3

\* An open entry with another search.
LEMMA WithFind ==
  ASSUME NEW x, SessionOK(x), x.in_use, NEW b \in BOOLEAN, NEW q \in Seq(Issued),
         \A i \in 1..Len(q) : NamedOK(q[i])
  PROVE  /\ SessionOK([x EXCEPT !.finding = b, !.find = q])
         /\ SameUse(x, [x EXCEPT !.finding = b, !.find = q])
<1> DEFINE y == [x EXCEPT !.finding = b, !.find = q]
<1>1. x \in SessionRec
  BY DEF SessionOK
<1>2. /\ y \in SessionRec /\ y.in_use /\ y.sess = x.sess /\ y.slot = x.slot
      /\ y.in_use = x.in_use /\ y.find = q /\ y.dec = x.dec /\ y.enc = x.enc
      /\ y.sign = x.sign /\ y.verify = x.verify
  BY <1>1 DEF SessionRec
<1> HIDE DEF y
<1>3. SessionOK(y) /\ SameUse(x, y)
  BY <1>2 DEF SessionOK, SameUse
<1> QED BY <1>3 DEF y
-----------------------------------------------------------------------------
(* Operations in progress.                                                  *)

\* A message with other fields.
LEMMA MessageType ==
  ASSUME NEW old \in Message, NEW a \in BOOLEAN, NEW o \in Handles \cup {<<>>},
         NEW k \in Nat, NEW q \in Seq(Nat), NEW b \in BOOLEAN
  PROVE  [old EXCEPT !.active = a, !.key = o, !.want = k, !.parts = q, !.cut = b] \in Message
BY DEF Message

\* No operation, an empty buffer.
LEMMA NoMessageOK == ASSUME NEW sess PROVE MessageOK(NoMessage, sess)
<1>1. NoMessage \in Message
  BY DEF NoMessage, Message
<1> QED BY <1>1 DEF NoMessage, MessageOK

\* What C_SignInit and C_VerifyInit make of the operation before.
LEMMA InitMessage ==
  ASSUME NEW sess, NEW old, MessageOK(old, sess), NEW x \in Issued
  PROVE  MessageOK([old EXCEPT !.active = TRUE, !.key = x.obj, !.want = x.key,
                               !.parts = <<>>,
                               !.cut = @ \/ (old.active /\ old.acc # <<>>)], sess)
<1> DEFINE b == old.cut \/ (old.active /\ old.acc # <<>>)
           m == [old EXCEPT !.active = TRUE, !.key = x.obj, !.want = x.key,
                            !.parts = <<>>, !.cut = b]
<1>1. old \in Message /\ x.obj \in Handles /\ x.key \in Nat /\ b \in BOOLEAN
  BY DEF MessageOK, Issued
<1>2. ~b => old.acc = <<>>
  BY DEF MessageOK
<1> HIDE DEF b
<1>3. m \in Message
  <2>1. <<>> \in Seq(Nat) /\ TRUE \in BOOLEAN /\ x.obj \in Handles \cup {<<>>}
    BY <1>1
  <2> QED BY <1>1, <2>1, MessageType, Zenon
<1>4. m.active /\ m.parts = <<>> /\ m.acc = old.acc /\ m.cut = b
  BY <1>1 DEF Message
<1> HIDE DEF m
<1>5. MessageOK(m, sess)
  BY <1>2, <1>3, <1>4 DEF MessageOK
<1> QED BY <1>5 DEF m, b

\* What C_Sign and C_Verify leave: an operation that is over and its buffer.
LEMMA OneCallMessage ==
  ASSUME NEW sess, NEW old, MessageOK(old, sess)
  PROVE  MessageOK([old EXCEPT !.active = FALSE, !.key = <<>>, !.want = 0,
                               !.parts = <<>>, !.cut = @ \/ old.acc # <<>>], sess)
<1> DEFINE b == old.cut \/ old.acc # <<>>
           m == [old EXCEPT !.active = FALSE, !.key = <<>>, !.want = 0,
                            !.parts = <<>>, !.cut = b]
<1>1. old \in Message /\ b \in BOOLEAN
  BY DEF MessageOK
<1>2. ~b => old.acc = <<>>
  OBVIOUS
<1> HIDE DEF b
<1>3. m \in Message
  <2>1. <<>> \in Seq(Nat) /\ FALSE \in BOOLEAN /\ <<>> \in Handles \cup {<<>>} /\ 0 \in Nat
    OBVIOUS
  <2> QED BY <1>1, <2>1, MessageType, Zenon
<1>4. ~m.active /\ m.parts = <<>> /\ m.acc = old.acc /\ m.cut = b
  BY <1>1 DEF Message
<1> HIDE DEF m
<1>5. MessageOK(m, sess)
  BY <1>2, <1>3, <1>4 DEF MessageOK
<1> QED BY <1>5 DEF m, b

\* One more part.
LEMMA PartMessage ==
  ASSUME NEW sess \in Nat, NEW old, MessageOK(old, sess), old.active
  PROVE  MessageOK([old EXCEPT !.acc = Append(@, sess), !.parts = Append(@, sess)], sess)
<1> DEFINE m == [old EXCEPT !.acc = Append(@, sess), !.parts = Append(@, sess)]
<1>1. old \in Message /\ old.acc \in Seq(Nat) /\ old.parts \in Seq(Nat)
  BY DEF MessageOK, Message
<1>2. /\ Append(old.acc, sess) \in Seq(Nat) /\ Append(old.parts, sess) \in Seq(Nat)
      /\ Len(Append(old.acc, sess)) = Len(old.acc) + 1 /\ Len(old.acc) \in Nat
      /\ \A i \in 1..Len(old.acc) : Append(old.acc, sess)[i] = old.acc[i]
      /\ Append(old.acc, sess)[Len(old.acc) + 1] = sess
  BY <1>1, AppendProperties, LenProperties
<1>3. /\ m \in Message /\ m.active = old.active /\ m.cut = old.cut
      /\ m.acc = Append(old.acc, sess) /\ m.parts = Append(old.parts, sess)
  BY <1>1, <1>2 DEF Message
<1> HIDE DEF m
<1>4. ~m.cut => m.acc = m.parts
  BY <1>3 DEF MessageOK
<1>5. \A i \in 1..Len(m.acc) : m.acc[i] = sess
  <2> TAKE i \in 1..Len(m.acc)
  <2>1. CASE i = Len(old.acc) + 1
    BY <1>2, <1>3, <2>1
  <2>2. CASE i # Len(old.acc) + 1
    <3>1. i \in 1..Len(old.acc)
      BY <1>2, <1>3, <2>2
    <3> QED BY <1>2, <1>3, <3>1 DEF MessageOK
  <2> QED BY <2>1, <2>2
<1>6. MessageOK(m, sess)
  BY <1>3, <1>4, <1>5 DEF MessageOK
<1> QED BY <1>6 DEF m

\* What is known of an open entry when a call comes in.
LEMMA ReadyFacts ==
  ASSUME PInv, NEW h \in Sessions, Ready(h)
  PROVE  LET x == g_sessions[h] IN
         /\ SessionOK(x) /\ x.in_use /\ g_init
         /\ x \in SessionRec /\ x.slot \in Slots /\ x.sess \in Nat
         /\ \A f \in {"sign", "verify"} : MessageOK(x[f], x.sess)
         /\ \A f \in {"enc", "dec"} : AeadOK(x[f])
<1>1. SessionOK(g_sessions[h]) /\ g_sessions[h].in_use /\ g_init
  BY DEF PInv, SessionsOK, Ready
<1>2. g_sessions[h] \in SessionRec
  BY <1>1 DEF SessionOK
<1>3. g_sessions[h].slot \in Slots /\ g_sessions[h].sess \in Nat
  BY <1>2 DEF SessionRec
<1>4. \A f \in {"sign", "verify"} : MessageOK(g_sessions[h][f], g_sessions[h].sess)
  BY <1>1 DEF SessionOK
<1>5. \A f \in {"enc", "dec"} : AeadOK(g_sessions[h][f])
  BY <1>1 DEF SessionOK
<1> QED BY <1>1, <1>2, <1>3, <1>4, <1>5

\* A call that changes one message of one session, and at most saves the token.
LEMMA MessageCallKeeps ==
  ASSUME PInv, NEW h \in Sessions, Ready(h), NEW f \in {"sign", "verify"},
         NEW m, MessageOK(m, g_sessions[h].sess),
         SetSession(h, [g_sessions[h] EXCEPT ![f] = m]), disk' \in {tok, disk},
         UNCHANGED <<g_init, tok, core, g_secrets, alive, issued, opens, nkeys>>
  PROVE  PInv'
<1> DEFINE y == [g_sessions[h] EXCEPT ![f] = m]
<1>1. SessionOK(g_sessions[h]) /\ g_sessions[h].in_use /\ g_init
  BY ReadyFacts
<1>2. SessionOK(y) /\ SameUse(g_sessions[h], y)
  BY <1>1, WithMessage
<1>3. \A x \in issued' : NamedOK(x)
  BY DEF PInv, IssuedOK
<1>4. SetSession(h, y)
  OBVIOUS
<1> HIDE DEF y
<1> QED BY <1>1, <1>2, <1>3, <1>4, SetSessionKeeps

\* The save after a call may fail.
LEMMA PersistSame == persist(tok) => disk' \in {tok, disk}
BY DEF persist

\* C_SignInit and C_VerifyInit, whatever the handle.
LEMMA MessageInitKeeps ==
  ASSUME PInv, NEW h \in Sessions, NEW x \in issued, C_SignInit(h, x) \/ C_VerifyInit(h, x)
  PROVE  PInv'
<1>1. Ready(h) /\ x \in Issued
  BY DEF PInv, IssuedOK, NamedOK, C_SignInit, C_VerifyInit
<1>2. ASSUME NEW f \in {"sign", "verify"}, MessageInit(h, f, x),
             UNCHANGED <<app, g_init, tok, disk, core, g_secrets, alive, issued, opens, nkeys>>
      PROVE  PInv'
  <2> DEFINE old == g_sessions[h][f]
             m == [old EXCEPT !.active = TRUE, !.key = x.obj, !.want = x.key,
                              !.parts = <<>>, !.cut = @ \/ (old.active /\ old.acc # <<>>)]
  <2>1. MessageOK(old, g_sessions[h].sess)
    BY <1>1, <1>2, ReadyFacts
  <2>2. MessageOK(m, g_sessions[h].sess)
    BY <1>1, <2>1, InitMessage
  <2>3. SetSession(h, [g_sessions[h] EXCEPT ![f] = m])
    BY <1>2 DEF MessageInit
  <2> HIDE DEF m
  <2> QED BY <1>1, <1>2, <2>2, <2>3, MessageCallKeeps
<1> QED BY <1>2 DEF C_SignInit, C_VerifyInit

\* C_Sign and C_Verify.
LEMMA OneCallKeeps ==
  ASSUME PInv, NEW h \in Sessions, C_Sign(h) \/ C_Verify(h)
  PROVE  PInv'
<1>1. Ready(h)
  BY DEF C_Sign, C_Verify
<1>2. ASSUME NEW f \in {"sign", "verify"}, EndOneCall(h, f), disk' \in {tok, disk},
             UNCHANGED <<app, g_init, tok, core, g_secrets, alive, issued, opens, nkeys>>
      PROVE  PInv'
  <2> DEFINE old == g_sessions[h][f]
             m == [old EXCEPT !.active = FALSE, !.key = <<>>, !.want = 0,
                              !.parts = <<>>, !.cut = @ \/ old.acc # <<>>]
  <2>1. MessageOK(old, g_sessions[h].sess)
    BY <1>1, <1>2, ReadyFacts
  <2>2. MessageOK(m, g_sessions[h].sess)
    BY <2>1, OneCallMessage
  <2>3. SetSession(h, [g_sessions[h] EXCEPT ![f] = m])
    BY <1>2 DEF EndOneCall
  <2> HIDE DEF m
  <2> QED BY <1>1, <1>2, <2>2, <2>3, MessageCallKeeps
<1> QED BY <1>2, PersistSame DEF C_Sign, C_Verify

\* C_SignFinal and C_VerifyFinal free the buffer.
LEMMA FinalKeeps ==
  ASSUME PInv, NEW h \in Sessions, C_SignFinal(h) \/ C_VerifyFinal(h)
  PROVE  PInv'
<1>1. Ready(h)
  BY DEF C_SignFinal, C_VerifyFinal
<1>2. ASSUME NEW f \in {"sign", "verify"}, EndParts(h, f), disk' \in {tok, disk},
             UNCHANGED <<app, g_init, tok, core, g_secrets, alive, issued, opens, nkeys>>
      PROVE  PInv'
  BY <1>1, <1>2, NoMessageOK, MessageCallKeeps DEF EndParts
<1> QED BY <1>2, PersistSame DEF C_SignFinal, C_VerifyFinal

\* C_SignUpdate and C_VerifyUpdate, with memory or without.
LEMMA UpdateKeeps ==
  ASSUME PInv, NEW h \in Sessions, NEW f \in {"sign", "verify"}, Update(h, f)
  PROVE  PInv'
<1> DEFINE x == g_sessions[h]
           m == [x[f] EXCEPT !.acc = Append(@, x.sess), !.parts = Append(@, x.sess)]
<1>1. Ready(h) /\ x[f].active
      /\ UNCHANGED <<app, g_init, tok, disk, core, g_secrets, alive, issued, opens, nkeys>>
  BY DEF Update
<1>2. MessageOK(x[f], x.sess) /\ x.sess \in Nat
  BY <1>1, ReadyFacts
<1>3. MessageOK(m, x.sess)
  BY <1>1, <1>2, PartMessage
<1>4. CASE SetSession(h, [x EXCEPT ![f] = m])
  <2> HIDE DEF m
  <2> QED BY <1>1, <1>3, <1>4, MessageCallKeeps
<1>5. CASE EndParts(h, f)
  BY <1>1, <1>5, NoMessageOK, MessageCallKeeps DEF EndParts
<1> QED BY <1>4, <1>5 DEF Update

\* C_EncryptInit and C_DecryptInit look the secret up.
LEMMA AeadInitKeeps ==
  ASSUME PInv, NEW h \in Sessions, NEW f \in {"enc", "dec"}, NEW x \in issued,
         aead_init(h, f, x)
  PROVE  PInv'
<1> DEFINE i == x.obj[2]
           c == [active |-> TRUE, key |-> i, want |-> g_secrets[i].id]
<1>1. Ready(h) /\ i \in Secrets /\ g_secrets[i].in_use
      /\ UNCHANGED <<app, g_init, tok, disk, core, g_secrets, alive, issued, opens, nkeys>>
      /\ SetSession(h, [g_sessions[h] EXCEPT ![f] = c])
  BY DEF aead_init, secret_at
<1>2. SessionOK(g_sessions[h]) /\ g_sessions[h].in_use /\ g_init
  BY <1>1, ReadyFacts
<1> HIDE DEF i
<1>3. g_secrets[i].id \in 1..nkeys /\ nkeys \in Nat
  BY <1>1 DEF PInv, SecretsOK, CountsOK
<1>4. c \in Aead /\ c.want <= nkeys /\ c.key = i /\ c.want = g_secrets[i].id
  BY <1>1, <1>3, Constants DEF Aead, Secrets
<1> HIDE DEF c
<1>5. AeadOK(c)
  BY <1>1, <1>4 DEF AeadOK
<1> DEFINE y == [g_sessions[h] EXCEPT ![f] = c]
<1>6. SessionOK(y) /\ SameUse(g_sessions[h], y)
  BY <1>2, <1>5, WithAead
<1>7. SetSession(h, y)
  BY <1>1
<1>8. \A z \in issued' : NamedOK(z)
  BY <1>1 DEF PInv, IssuedOK
<1> HIDE DEF y
<1> QED BY <1>1, <1>2, <1>6, <1>7, <1>8, SetSessionKeeps

\* C_Encrypt and C_Decrypt end the operation.
LEMMA AeadRunKeeps ==
  ASSUME PInv, NEW h \in Sessions, NEW f \in {"enc", "dec"}, AeadRun(h, f)
  PROVE  PInv'
<1> DEFINE y == [g_sessions[h] EXCEPT ![f] = NoAead]
<1>1. Ready(h) /\ SetSession(h, y)
      /\ UNCHANGED <<app, g_init, tok, disk, core, g_secrets, alive, issued, opens, nkeys>>
  BY DEF AeadRun
<1>2. SessionOK(g_sessions[h]) /\ g_sessions[h].in_use /\ g_init
  BY <1>1, ReadyFacts
<1>3. NoAead \in Aead /\ NoAead.want = 0 /\ ~NoAead.active
  BY Constants DEF NoAead, Aead
<1>4. AeadOK(NoAead)
  BY <1>3 DEF AeadOK, PInv, CountsOK
<1>5. SessionOK(y) /\ SameUse(g_sessions[h], y)
  BY <1>2, <1>4, WithAead
<1>6. \A z \in issued' : NamedOK(z)
  BY <1>1 DEF PInv, IssuedOK
<1> HIDE DEF y
<1> QED BY <1>1, <1>2, <1>5, <1>6, SetSessionKeeps
-----------------------------------------------------------------------------
(* Searches.                                                                *)

\* The handles a search picks are handles of the slot as it is.
LEMMA FindInitKeeps ==
  ASSUME PInv, NEW h \in Sessions, C_FindObjectsInit(h)
  PROVE  PInv'
<1> DEFINE s == g_sessions[h].slot
           found(kinds) == IF tok[s].state # "LOADED" THEN <<>>
                           ELSE [i \in DOMAIN kinds |-> Named(p11_handle(kinds[i], s), tok[s].key)]
<1>1. Ready(h)
      /\ UNCHANGED <<app, g_init, tok, disk, core, g_secrets, alive, issued, opens, nkeys>>
  BY DEF C_FindObjectsInit
<1>2. SessionOK(g_sessions[h]) /\ g_sessions[h].in_use /\ g_init /\ s \in Slots
  BY <1>1, ReadyFacts
<1>3. PICK kinds \in {<<"pub", "priv">>, <<"pub">>, <<"priv">>} :
        SetSession(h, [g_sessions[h] EXCEPT !.finding = TRUE, !.find = found(kinds)])
  BY DEF C_FindObjectsInit
<1>4. \A i \in DOMAIN kinds : kinds[i] \in {"priv", "pub"}
  BY <1>3
<1>5. \E n \in Nat : DOMAIN kinds = 1..n
  <2>1. CASE kinds = <<"pub", "priv">>
    <3>1. DOMAIN kinds = 1..2
      BY <2>1
    <3> QED BY <3>1
  <2>2. CASE kinds = <<"pub">> \/ kinds = <<"priv">>
    <3>1. DOMAIN kinds = 1..1
      BY <2>2
    <3> QED BY <3>1
  <2> QED BY <1>3, <2>1, <2>2
<1>6. found(kinds) \in Seq(Issued) /\ \A i \in 1..Len(found(kinds)) : NamedOK(found(kinds)[i])
  <2>1. CASE tok[s].state # "LOADED"
    BY <2>1
  <2>2. CASE tok[s].state = "LOADED"
    <3> DEFINE q == [i \in DOMAIN kinds |-> Named(p11_handle(kinds[i], s), tok[s].key)]
    <3>1. TokenOK(tok)
      BY DEF PInv, TokensOK
    <3>2. \A i \in DOMAIN kinds : NamedOK(q[i])
      BY <1>2, <1>4, <2>2, <3>1, NamedMade
    <3>3. \A i \in DOMAIN kinds : q[i] \in Issued
      BY <3>2 DEF NamedOK
    <3>4. PICK n \in Nat : DOMAIN kinds = 1..n
      BY <1>5
    <3>5. q \in [1..n -> Issued]
      BY <3>3, <3>4
    <3>6. q \in Seq(Issued) /\ Len(q) = n
      BY <3>5
    <3>7. \A i \in 1..Len(q) : NamedOK(q[i])
      BY <3>2, <3>4, <3>6
    <3> QED BY <2>2, <3>6, <3>7
  <2> QED BY <2>1, <2>2
<1> DEFINE q == found(kinds)
           y == [g_sessions[h] EXCEPT !.finding = TRUE, !.find = q]
<1>7. SetSession(h, y) /\ q \in Seq(Issued) /\ \A i \in 1..Len(q) : NamedOK(q[i])
  BY <1>3, <1>6
<1> HIDE DEF q
<1>8. SessionOK(y) /\ SameUse(g_sessions[h], y)
  BY <1>2, <1>7, WithFind
<1>9. \A z \in issued' : NamedOK(z)
  BY <1>1 DEF PInv, IssuedOK
<1> HIDE DEF y
<1> QED BY <1>1, <1>2, <1>7, <1>8, <1>9, SetSessionKeeps

\* C_FindObjects hands the first of them out.
LEMMA FindKeeps ==
  ASSUME PInv, NEW h \in Sessions, C_FindObjects(h)
  PROVE  PInv'
<1> DEFINE x == g_sessions[h]
<1>1. Ready(h)
      /\ UNCHANGED <<app, g_init, tok, disk, core, g_secrets, alive, opens, nkeys>>
  BY DEF C_FindObjects
<1>2. SessionOK(x) /\ x.in_use /\ g_init /\ x \in SessionRec
  BY <1>1, ReadyFacts
<1>3. PICK n \in 1..Len(x.find) :
        /\ issued' = issued \cup Range(SubSeq(x.find, 1, n))
        /\ SetSession(h, [x EXCEPT !.find = SubSeq(x.find, n + 1, Len(x.find))])
  BY DEF C_FindObjects
<1>4. /\ x.find \in Seq(Issued) /\ Len(x.find) \in Nat /\ x.finding \in BOOLEAN
      /\ \A i \in 1..Len(x.find) : x.find[i] \in Issued /\ NamedOK(x.find[i])
  BY <1>2, LenProperties, ElementOfSeq DEF SessionRec, SessionOK
<1> DEFINE p == SubSeq(x.find, 1, n)
           q == SubSeq(x.find, n + 1, Len(x.find))
           y == [x EXCEPT !.finding = x.finding, !.find = q]
<1>5. p \in Seq(Issued) /\ \A i \in 1..Len(p) : NamedOK(p[i])
  <2>1. 1 \in Int /\ n \in Int /\ \A i \in 1..n : x.find[i] \in Issued
    BY <1>4
  <2>2. p \in Seq(Issued) /\ Len(p) = (IF 1 <= n THEN n - 1 + 1 ELSE 0)
        /\ \A i \in 1..(n - 1 + 1) : p[i] = x.find[1 + i - 1]
    BY <2>1, SubSeqProperties
  <2> HIDE DEF p
  <2>3. ASSUME NEW i \in 1..Len(p) PROVE NamedOK(p[i])
    <3>1. i \in 1..Len(x.find) /\ i \in 1..(n - 1 + 1) /\ 1 + i - 1 = i
      BY <1>4, <2>2
    <3> QED BY <1>4, <2>2, <3>1
  <2> QED BY <2>2, <2>3
<1>6. q \in Seq(Issued) /\ \A i \in 1..Len(q) : NamedOK(q[i])
  <2> DEFINE k == Len(x.find)
  <2>1. n + 1 \in Int /\ k \in Int /\ \A i \in (n + 1)..k : x.find[i] \in Issued
    BY <1>4
  <2>2. q \in Seq(Issued) /\ Len(q) = (IF n + 1 <= k THEN k - (n + 1) + 1 ELSE 0)
        /\ \A i \in 1..(k - (n + 1) + 1) : q[i] = x.find[n + 1 + i - 1]
    BY <2>1, SubSeqProperties
  <2> HIDE DEF q
  <2>3. ASSUME NEW i \in 1..Len(q) PROVE NamedOK(q[i])
    <3>1. n + 1 + i - 1 \in 1..k /\ i \in 1..(k - (n + 1) + 1)
      BY <1>4, <2>2
    <3> QED BY <1>4, <2>2, <3>1
  <2> QED BY <2>2, <2>3
<1>7. \A z \in issued' : NamedOK(z)
  <2>1. DOMAIN p = 1..Len(p)
    BY <1>5, LenProperties
  <2>2. \A z \in Range(p) : NamedOK(z)
    BY <1>5, <2>1 DEF Range
  <2> QED BY <1>3, <2>2 DEF PInv, IssuedOK
<1> HIDE DEF p, q
<1>8. [x EXCEPT !.find = q] = y
  <2> HIDE DEF x
  <2> QED BY <1>2 DEF SessionRec
<1>9. SessionOK(y) /\ SameUse(x, y)
  BY <1>2, <1>4, <1>6, WithFind
<1>10. SetSession(h, y)
  BY <1>3, <1>8 DEF q
<1> HIDE DEF y
<1> QED BY <1>1, <1>2, <1>7, <1>9, <1>10, SetSessionKeeps

\* The search ends.
LEMMA FindFinalKeeps ==
  ASSUME PInv, NEW h \in Sessions, C_FindObjectsFinal(h)
  PROVE  PInv'
<1> DEFINE y == [g_sessions[h] EXCEPT !.finding = FALSE, !.find = <<>>]
<1>1. Ready(h) /\ SetSession(h, y)
      /\ UNCHANGED <<app, g_init, tok, disk, core, g_secrets, alive, issued, opens, nkeys>>
  BY DEF C_FindObjectsFinal
<1>2. SessionOK(g_sessions[h]) /\ g_sessions[h].in_use /\ g_init
  BY <1>1, ReadyFacts
<1>3. <<>> \in Seq(Issued) /\ \A i \in 1..Len(<<>>) : NamedOK(<<>>[i])
  OBVIOUS
<1>4. SessionOK(y) /\ SameUse(g_sessions[h], y)
  BY <1>2, <1>3, WithFind
<1>5. \A z \in issued' : NamedOK(z)
  BY <1>1 DEF PInv, IssuedOK
<1> HIDE DEF y
<1> QED BY <1>1, <1>2, <1>4, <1>5, SetSessionKeeps
-----------------------------------------------------------------------------
(* Keys and secrets.                                                        *)

\* A save writes the token, or the file stays.
LEMMA PersistToken ==
  ASSUME TokenOK(disk), NEW t, TokenOK(t), persist(t)
  PROVE  TokenOK(disk')
BY DEF persist

\* A call that changes the token only.
LEMMA TokenCallKeeps ==
  ASSUME PInv, TokenOK(tok'), TokenOK(disk'), TokGrows, nkeys' \in Nat, nkeys <= nkeys',
         g_init, \A x \in issued' : NamedOK(x) \/ NamedOK(x)',
         UNCHANGED <<g_init, core, g_sessions, g_secrets, alive, opens>>
  PROVE  PInv'
<1>1. CountsOK'
  <2>1. nkeys \in Nat /\ alive \subseteq 1..nkeys
    BY DEF PInv, CountsOK
  <2>2. alive' \subseteq 1..nkeys'
    BY <2>1
  <2> QED BY <2>2 DEF PInv, CountsOK
<1>2. TokensOK'
  BY DEF TokensOK, TokenOK
<1>3. SecretsGrow
  BY DEF SecretsGrow
<1>4. SessionsOK'
  BY <1>1, <1>2, <1>3, SessionsKept DEF PInv
<1>5. CoreOK' /\ SecretsOK'
  <2>1. \A h \in Sessions : SameUse(g_sessions[h], g_sessions'[h])
    BY DEF SameUse
  <2> QED BY <1>1, <2>1, OwnersKept DEF PInv
<1>6. IssuedOK'
  BY <1>2, NamedKept DEF PInv, IssuedOK
<1> QED BY <1>1, <1>2, <1>4, <1>5, <1>6 DEF PInv

\* A slot that holds no key gets another record of its generation, or any slot one of a
\* later generation, or one with the same key.
LEMMA SlotChange ==
  ASSUME TokenOK(tok), NEW s \in Slots, NEW r \in SlotRec, r.key # 0 <=> r.state = "LOADED",
         tok' = [tok EXCEPT ![s] = r], tok[s].gen <= r.gen,
         tok[s].gen = r.gen /\ tok[s].state = "LOADED" => r.state = "LOADED" /\ r.key = tok[s].key
  PROVE  TokenOK(tok') /\ TokGrows
<1>1. tok' \in [Slots -> SlotRec] /\ tok'[s] = r /\ \A z \in Slots \ {s} : tok'[z] = tok[z]
  BY DEF TokenOK
<1>2. TokenOK(tok')
  BY <1>1 DEF TokenOK
<1>3. TokGrows
  <2>1. \A z \in Slots : tok[z].gen \in Nat
    BY DEF TokenOK, SlotRec
  <2> QED BY <1>1, <2>1 DEF TokGrows
<1> QED BY <1>2, <1>3

\* C_InitToken leaves the slot EMPTY.
LEMMA InitTokenKeeps ==
  ASSUME PInv, NEW s \in Slots, C_InitToken(s)
  PROVE  PInv'
<1> DEFINE r == [tok[s] EXCEPT !.state = "EMPTY"]
<1>1. /\ g_init /\ tok[s].state = "UNINIT" /\ tok' = [tok EXCEPT ![s] = r] /\ persist(tok')
      /\ UNCHANGED <<app, g_init, core, g_sessions, g_secrets, alive, issued, opens, nkeys>>
      /\ TokenOK(tok) /\ TokenOK(disk)
  BY DEF PInv, TokensOK, TokenOK, C_InitToken
<1>2. tok[s] \in SlotRec /\ (tok[s].key # 0 <=> tok[s].state = "LOADED")
  BY <1>1 DEF TokenOK
<1>3. r \in SlotRec /\ r.state = "EMPTY" /\ r.key = tok[s].key /\ r.gen = tok[s].gen
      /\ r.gen \in Nat
  BY <1>2 DEF SlotRec
<1> HIDE DEF r
<1>4. TokenOK(tok') /\ TokGrows
  <2>1. /\ r.key # 0 <=> r.state = "LOADED"
        /\ tok[s].gen <= r.gen
        /\ tok[s].gen = r.gen /\ tok[s].state = "LOADED" =>
             r.state = "LOADED" /\ r.key = tok[s].key
    BY <1>1, <1>2, <1>3
  <2>2. TokenOK(tok) /\ r \in SlotRec /\ tok' = [tok EXCEPT ![s] = r]
    BY <1>1, <1>3
  <2> QED BY <2>1, <2>2, SlotChange
<1>5. TokenOK(disk')
  BY <1>1, <1>4, PersistToken
<1>6. nkeys' \in Nat /\ nkeys <= nkeys'
  BY <1>1 DEF PInv, CountsOK
<1>7. \A x \in issued' : NamedOK(x)
  BY <1>1 DEF PInv, IssuedOK
<1> QED BY <1>1, <1>4, <1>5, <1>6, <1>7, TokenCallKeeps

\* C_InitPIN leaves the key alone.
LEMMA InitPINKeeps ==
  ASSUME PInv, NEW h \in Sessions, C_InitPIN(h)
  PROVE  PInv'
<1> DEFINE s == g_sessions[h].slot
           r == [tok[s] EXCEPT !.user_pin = TRUE]
<1>1. /\ Ready(h) /\ tok' = [tok EXCEPT ![s] = r] /\ persist(tok')
      /\ UNCHANGED <<app, g_init, core, g_sessions, g_secrets, alive, issued, opens, nkeys>>
      /\ TokenOK(tok) /\ TokenOK(disk)
  BY DEF PInv, TokensOK, TokenOK, C_InitPIN
<1>2. s \in Slots /\ g_init
  BY <1>1, ReadyFacts
<1> HIDE DEF s
<1>3. tok[s] \in SlotRec /\ (tok[s].key # 0 <=> tok[s].state = "LOADED")
  BY <1>1, <1>2 DEF TokenOK
<1>4. r \in SlotRec /\ r.state = tok[s].state /\ r.key = tok[s].key /\ r.gen = tok[s].gen
      /\ r.gen \in Nat
  BY <1>3 DEF SlotRec
<1> HIDE DEF r
<1>5. TokenOK(tok') /\ TokGrows
  <2>1. /\ r.key # 0 <=> r.state = "LOADED"
        /\ tok[s].gen <= r.gen
        /\ tok[s].gen = r.gen /\ tok[s].state = "LOADED" =>
             r.state = "LOADED" /\ r.key = tok[s].key
    BY <1>3, <1>4
  <2>2. TokenOK(tok) /\ r \in SlotRec /\ tok' = [tok EXCEPT ![s] = r]
    BY <1>1, <1>4
  <2> QED BY <1>2, <2>1, <2>2, SlotChange
<1>6. TokenOK(disk')
  BY <1>1, <1>5, PersistToken
<1>7. nkeys' \in Nat /\ nkeys <= nkeys'
  BY <1>1 DEF PInv, CountsOK
<1>8. \A x \in issued' : NamedOK(x)
  BY <1>1 DEF PInv, IssuedOK
<1> QED BY <1>1, <1>2, <1>5, <1>6, <1>7, <1>8, TokenCallKeeps

\* A key goes into an EMPTY slot only, so no handle of its generation is left.
LEMMA InstallFacts ==
  ASSUME PInv, NEW h \in Sessions, Ready(h), NEW alg \in {"sig", "kem"}, InstallKey(h, alg)
  PROVE  LET s == g_sessions[h].slot IN
         /\ s \in Slots /\ TokenOK(tok') /\ TokGrows
         /\ tok'[s].state = "LOADED" /\ tok'[s].key = nkeys + 1
         /\ tok'[s].gen = tok[s].gen /\ nkeys' = nkeys + 1 /\ nkeys \in Nat
<1> DEFINE s == g_sessions[h].slot
<1>1. s \in Slots
  BY ReadyFacts
<1>2. /\ tok[s].state = "EMPTY" /\ nkeys' = nkeys + 1
      /\ tok' = [tok EXCEPT ![s] = [tok[s] EXCEPT !.state = "LOADED", !.alg = alg,
                                                  !.key = nkeys + 1]]
  BY DEF InstallKey
<1>3. TokenOK(tok) /\ nkeys \in Nat
  BY DEF PInv, TokensOK, CountsOK
<1> HIDE DEF s
<1> DEFINE r == [tok[s] EXCEPT !.state = "LOADED", !.alg = alg, !.key = nkeys + 1]
<1>4. tok[s] \in SlotRec /\ tok \in [Slots -> SlotRec]
  BY <1>1, <1>3 DEF TokenOK
<1>5. tok' = [tok EXCEPT ![s] = r]
  BY <1>2
<1>6. r \in SlotRec /\ r.state = "LOADED" /\ r.key = nkeys + 1 /\ r.gen = tok[s].gen
      /\ r.gen \in Nat /\ r.key # 0
  <2>1. alg \in {"none", "sig", "kem"} /\ nkeys + 1 \in Nat /\ nkeys + 1 # 0
    BY <1>3
  <2>2. r \in SlotRec
    BY <1>4, <2>1 DEF SlotRec
  <2>3. r.state = "LOADED" /\ r.key = nkeys + 1 /\ r.gen = tok[s].gen
    BY <1>4 DEF SlotRec
  <2>4. tok[s].gen \in Nat
    BY <1>4 DEF SlotRec
  <2> QED BY <2>1, <2>2, <2>3, <2>4
<1> HIDE DEF r
<1>7. TokenOK(tok') /\ TokGrows
  <2>1. /\ r.key # 0 <=> r.state = "LOADED"
        /\ tok[s].gen <= r.gen
        /\ tok[s].gen = r.gen /\ tok[s].state = "LOADED" =>
             r.state = "LOADED" /\ r.key = tok[s].key
    BY <1>2, <1>6
  <2> QED BY <1>1, <1>3, <1>5, <1>6, <2>1, SlotChange
<1>8. tok'[s] = r
  BY <1>1, <1>4, <1>5
<1> QED BY <1>1, <1>2, <1>3, <1>6, <1>7, <1>8 DEF s

\* The handles returned with a new key are handles of the slot as it is then.
LEMMA NewNamed ==
  ASSUME PInv, NEW h \in Sessions, Ready(h), NEW alg \in {"sig", "kem"}, InstallKey(h, alg),
         NEW kind \in {"priv", "pub"}, NEW x,
         x = Named(p11_handle(kind, g_sessions[h].slot), nkeys + 1)
  PROVE  NamedOK(x)'
<1> DEFINE s == g_sessions[h].slot
           o == p11_handle(kind, s)
<1>1. /\ s \in Slots /\ tok'[s].state = "LOADED" /\ tok'[s].key = nkeys + 1
      /\ tok'[s].gen = tok[s].gen /\ nkeys \in Nat
  BY InstallFacts
<1>2. TokenOK(tok)
  BY DEF PInv, TokensOK
<1>3. tok[s].gen \in Nat
  BY <1>1, <1>2 DEF TokenOK, SlotRec
<1> HIDE DEF s
<1>4. o \in Handles /\ ~IsSecret(o) /\ o[2] = s /\ o[3] = tok[s].gen % Gens
  BY <1>1, <1>2, HandleMade
<1>5. x = Named(o, nkeys + 1)
  BY DEF s
<1> HIDE DEF o
<1>6. x = [obj |-> o, key |-> nkeys + 1, gen |-> tok[s].gen]
  BY <1>4, <1>5 DEF Named
<1>7. x.obj = o /\ x.key = nkeys + 1 /\ x.gen = tok[s].gen /\ x \in Issued
  BY <1>1, <1>3, <1>4, <1>6 DEF Issued
<1> QED BY <1>1, <1>3, <1>4, <1>7 DEF NamedOK

\* C_GenerateKeyPair, and C_CreateObject with a seed, which returns one handle.
LEMMA InstallKeeps ==
  ASSUME PInv, NEW h \in Sessions, Ready(h), NEW alg \in {"sig", "kem"}, InstallKey(h, alg),
         persist(tok'),
         issued' \subseteq issued \cup {Named(p11_handle(kind, g_sessions[h].slot), nkeys + 1) :
                                          kind \in {"priv", "pub"}},
         UNCHANGED <<g_init, core, g_sessions, g_secrets, alive, opens>>
  PROVE  PInv'
<1>1. TokenOK(tok') /\ TokGrows /\ nkeys' = nkeys + 1 /\ nkeys \in Nat
  BY InstallFacts
<1>2. TokenOK(disk') /\ g_init
  BY <1>1, PersistToken, ReadyFacts DEF PInv, TokensOK
<1>3. ASSUME NEW x \in issued' PROVE NamedOK(x) \/ NamedOK(x)'
  <2>1. CASE x \in issued
    BY <2>1 DEF PInv, IssuedOK
  <2>2. CASE x \notin issued
    <3>1. PICK kind \in {"priv", "pub"} :
            x = Named(p11_handle(kind, g_sessions[h].slot), nkeys + 1)
      BY <2>2
    <3> QED BY <3>1, NewNamed
  <2> QED BY <2>1, <2>2
<1>4. nkeys' \in Nat /\ nkeys <= nkeys'
  BY <1>1
<1> QED BY <1>1, <1>2, <1>3, <1>4, TokenCallKeeps

\* C_GenerateKeyPair.
LEMMA GenerateKeeps ==
  ASSUME PInv, NEW h \in Sessions, NEW alg \in {"sig", "kem"}, C_GenerateKeyPair(h, alg)
  PROVE  PInv'
<1>1. /\ Ready(h) /\ InstallKey(h, alg) /\ persist(tok')
      /\ Issue({p11_handle("priv", g_sessions[h].slot), p11_handle("pub", g_sessions[h].slot)},
               nkeys + 1)
      /\ UNCHANGED <<app, g_init, core, g_sessions, g_secrets, alive, opens>>
  BY DEF C_GenerateKeyPair
<1>2. issued' \subseteq issued \cup {Named(p11_handle(kind, g_sessions[h].slot), nkeys + 1) :
                                       kind \in {"priv", "pub"}}
  BY <1>1 DEF Issue
<1> QED BY <1>1, <1>2, InstallKeeps

\* A call that changes the session objects only.
LEMMA SecretCallKeeps ==
  ASSUME PInv, CountsOK', SecretsGrow, SecretsOK', disk' \in {tok, disk},
         g_init, \A x \in issued' : NamedOK(x),
         UNCHANGED <<g_init, tok, core, g_sessions, opens>>
  PROVE  PInv'
<1>1. TokensOK' /\ TokGrows
  BY TokSame DEF PInv, TokensOK, TokenOK
<1>2. SessionsOK'
  BY <1>1, SessionsKept DEF PInv
<1>3. CoreOK'
  BY DEF PInv, CoreOK
<1>4. IssuedOK'
  BY <1>1, NamedKept DEF PInv, IssuedOK
<1> QED BY <1>1, <1>2, <1>3, <1>4 DEF PInv

\* A new secret goes into a free entry, under a number no operation knows.
LEMMA NewSecretKeeps ==
  ASSUME PInv, NEW h \in Sessions, Ready(h), NewSecret(h), disk' \in {tok, disk},
         UNCHANGED <<g_init, tok, core, g_sessions, opens>>
  PROVE  PInv'
<1>1. PICK i \in Secrets :
        /\ secret_alloc(i)
        /\ g_secrets' = [g_secrets EXCEPT ![i] =
             [in_use |-> TRUE, owner |-> h, id |-> nkeys + 1, sess |-> g_sessions[h].sess]]
        /\ Issue({<<"secret", i>>}, nkeys + 1)
  BY DEF NewSecret
<1>2. alive' = alive \cup {nkeys + 1} /\ nkeys' = nkeys + 1
  BY DEF NewSecret
<1>3. /\ nkeys \in Nat /\ alive \subseteq 1..nkeys /\ opens \in Nat /\ g_init \in BOOLEAN
      /\ g_secrets \in [Secrets -> SecretRec] /\ ~g_secrets[i].in_use
      /\ g_init /\ g_sessions[h].in_use /\ g_sessions[h].sess \in Nat
  BY <1>1, ReadyFacts DEF PInv, CountsOK, SecretsOK, secret_alloc
<1>4. g_secrets[i].id = 0
  BY <1>3 DEF PInv, SecretsOK, NoSecret
<1> DEFINE r == [in_use |-> TRUE, owner |-> h, id |-> nkeys + 1, sess |-> g_sessions[h].sess]
<1>5. r \in SecretRec /\ r.in_use /\ r.owner = h /\ r.id = nkeys + 1
      /\ r.sess = g_sessions[h].sess
  BY <1>3, Constants DEF SecretRec, Sessions
<1>6. g_secrets' = [g_secrets EXCEPT ![i] = r]
  BY <1>1
<1> HIDE DEF r
<1>7. CountsOK'
  <2>1. alive' \subseteq 1..nkeys' /\ nkeys' \in Nat
    BY <1>2, <1>3
  <2> QED BY <1>3, <2>1 DEF CountsOK
<1>8. SecretsGrow
  <2>1. nkeys <= nkeys'
    BY <1>2, <1>3
  <2>2. \A k \in alive' : k <= nkeys => k \in alive /\ k # 0
    BY <1>2, <1>3
  <2>3. \A k \in alive' : k <= nkeys =>
          \A j \in Secrets : g_secrets[j].id = k => g_secrets'[j].id = k
    BY <1>3, <1>4, <1>6, <2>2
  <2> QED BY <2>1, <2>2, <2>3 DEF SecretsGrow
<1>9. SecretsOK'
  <2>1. g_secrets' \in [Secrets -> SecretRec]
    BY <1>3, <1>5, <1>6
  <2>2. ASSUME NEW j \in Secrets
        PROVE  LET x == g_secrets'[j] IN
               /\ ~x.in_use => x = NoSecret
               /\ x.in_use => /\ x.owner \in Sessions /\ x.id \in 1..nkeys'
                              /\ g_sessions'[x.owner].in_use
                              /\ g_sessions'[x.owner].sess = x.sess
    <3>1. CASE j = i
      <4>1. g_secrets'[j] = r /\ nkeys + 1 \in 1..nkeys'
        BY <1>2, <1>3, <1>6, <3>1
      <4> QED BY <1>3, <1>5, <4>1
    <3>2. CASE j # i
      <4>1. g_secrets'[j] = g_secrets[j]
        BY <1>3, <1>6, <3>2
      <4>2. \A k \in 1..nkeys : k \in 1..nkeys'
        BY <1>2, <1>3
      <4> QED BY <4>1, <4>2 DEF PInv, SecretsOK
    <3> QED BY <3>1, <3>2
  <2> QED BY <2>1, <2>2 DEF SecretsOK
<1>10. \A x \in issued' : NamedOK(x)
  <2>1. IsSecret(<<"secret", i>>) /\ <<"secret", i>> \in Handles
    BY SecretHandle
  <2>2. Named(<<"secret", i>>, nkeys + 1) = [obj |-> <<"secret", i>>, key |-> nkeys + 1, gen |-> 0]
    BY <2>1 DEF Named
  <2>3. NamedOK(Named(<<"secret", i>>, nkeys + 1))
    BY <1>3, <2>1, <2>2 DEF NamedOK, Issued
  <2>4. issued' = issued \cup {Named(<<"secret", i>>, nkeys + 1)}
    BY <1>1 DEF Issue
  <2> QED BY <2>3, <2>4 DEF PInv, IssuedOK
<1> QED BY <1>3, <1>7, <1>8, <1>9, <1>10, SecretCallKeeps

\* C_CreateObject: a secret or a seed.
LEMMA CreateKeeps ==
  ASSUME PInv, NEW h \in Sessions, C_CreateObject(h)
  PROVE  PInv'
<1>1. Ready(h) /\ UNCHANGED <<app, g_init, core, g_sessions, opens>>
  BY DEF C_CreateObject
<1>2. CASE NewSecret(h) /\ UNCHANGED <<tok, disk>>
  BY <1>1, <1>2, NewSecretKeeps
<1>3. ASSUME NEW alg \in {"sig", "kem"}, InstallKey(h, alg), persist(tok'),
             Issue({p11_handle("priv", g_sessions[h].slot)}, nkeys + 1),
             UNCHANGED <<g_secrets, alive>>
      PROVE  PInv'
  <2>1. issued' \subseteq issued \cup {Named(p11_handle(kind, g_sessions[h].slot), nkeys + 1) :
                                         kind \in {"priv", "pub"}}
    BY <1>3 DEF Issue
  <2> QED BY <1>1, <1>3, <2>1, InstallKeeps
<1> QED BY <1>2, <1>3 DEF C_CreateObject

\* The shared secret becomes a session object.
LEMMA KemKeeps ==
  ASSUME PInv, NEW h \in Sessions, NEW o, C_EncapsulateKey(h, o) \/ C_DecapsulateKey(h, o)
  PROVE  PInv'
BY NewSecretKeeps, PersistSame DEF C_EncapsulateKey, C_DecapsulateKey

\* A secret goes; no other entry holds it.
LEMMA DestroySecretKeeps ==
  ASSUME PInv, NEW i \in Secrets, g_secrets[i].in_use, g_init,
         g_secrets' = [g_secrets EXCEPT ![i] = NoSecret],
         alive' = alive \ {g_secrets[i].id},
         UNCHANGED <<g_init, tok, disk, core, g_sessions, issued, opens, nkeys>>
  PROVE  PInv'
<1>1. CountsOK'
  BY DEF PInv, CountsOK
<1>2. g_secrets \in [Secrets -> SecretRec] /\ NoSecret \in SecretRec /\ ~NoSecret.in_use
  BY Constants DEF PInv, SecretsOK, NoSecret, SecretRec
<1>3. g_secrets'[i] = NoSecret /\ \A j \in Secrets \ {i} : g_secrets'[j] = g_secrets[j]
  BY <1>2
<1>4. SecretsGrow
  <2>1. nkeys <= nkeys'
    BY DEF PInv, CountsOK
  <2> QED BY <1>3, <2>1 DEF SecretsGrow
<1>5. SecretsOK'
  <2>1. g_secrets' \in [Secrets -> SecretRec]
    BY <1>2
  <2> QED BY <1>2, <1>3, <2>1 DEF PInv, SecretsOK
<1>6. \A x \in issued' : NamedOK(x)
  BY DEF PInv, IssuedOK
<1> QED BY <1>1, <1>4, <1>5, <1>6, SecretCallKeeps

\* C_DestroyObject: a secret, or a key pair, and the slot moves to the next generation.
LEMMA DestroyKeeps ==
  ASSUME PInv, NEW h \in Sessions, NEW x \in issued, C_DestroyObject(h, x.obj)
  PROVE  PInv'
<1> DEFINE o == x.obj
<1>1. o \in Handles
  BY DEF PInv, IssuedOK, NamedOK, Issued
<1>2. Ready(h) /\ g_init /\ UNCHANGED <<app, g_init, core, g_sessions, issued, opens, nkeys>>
  BY DEF C_DestroyObject, Ready
<1> HIDE DEF o
<1>3. CASE IsSecret(o) /\ secret_at(o[2])
             /\ g_secrets' = [g_secrets EXCEPT ![o[2]] = NoSecret]
             /\ alive' = alive \ {g_secrets[o[2]].id} /\ UNCHANGED <<tok, disk>>
  BY <1>2, <1>3, DestroySecretKeeps DEF secret_at
<1> DEFINE s == o[2]
           r == [tok[s] EXCEPT !.state = "EMPTY", !.alg = "none", !.key = 0, !.gen = @ + 1]
<1>4. CASE Reaches(h, o) /\ tok' = [tok EXCEPT ![s] = r] /\ persist(tok')
             /\ UNCHANGED <<g_secrets, alive>>
  <2>1. s \in Slots
    BY <1>1, <1>4, HandleParts DEF Reaches, core_handle_of
  <2>2. TokenOK(tok) /\ TokenOK(disk)
    BY DEF PInv, TokensOK
  <2> HIDE DEF s
  <2>3. tok[s] \in SlotRec
    BY <2>1, <2>2 DEF TokenOK
  <2>4. r \in SlotRec /\ r.state = "EMPTY" /\ r.key = 0 /\ r.gen = tok[s].gen + 1
        /\ tok[s].gen \in Nat
    <3>1. tok[s].gen \in Nat /\ tok[s].gen + 1 \in Nat
      BY <2>3 DEF SlotRec
    <3>2. r \in SlotRec
      BY <2>3, <3>1 DEF SlotRec
    <3>3. r.state = "EMPTY" /\ r.key = 0
      BY <2>3 DEF SlotRec
    <3>4. r.gen = tok[s].gen + 1
      BY <2>3 DEF SlotRec
    <3> QED BY <3>1, <3>2, <3>3, <3>4
  <2>5. tok' = [tok EXCEPT ![s] = r]
    BY <1>4 DEF s
  <2> HIDE DEF r
  <2>6. TokenOK(tok') /\ TokGrows
    <3>1. /\ r.key # 0 <=> r.state = "LOADED"
          /\ tok[s].gen <= r.gen
          /\ tok[s].gen = r.gen /\ tok[s].state = "LOADED" =>
               r.state = "LOADED" /\ r.key = tok[s].key
      BY <2>4
    <3> QED BY <2>1, <2>2, <2>4, <2>5, <3>1, SlotChange
  <2>7. TokenOK(disk')
    BY <1>4, <2>2, <2>6, PersistToken
  <2>8. nkeys' \in Nat /\ nkeys <= nkeys'
    BY <1>2 DEF PInv, CountsOK
  <2>9. \A z \in issued' : NamedOK(z)
    BY <1>2 DEF PInv, IssuedOK
  <2> QED BY <1>2, <1>4, <2>6, <2>7, <2>8, <2>9, TokenCallKeeps
<1> QED BY <1>3, <1>4 DEF C_DestroyObject, o
-----------------------------------------------------------------------------
(* Sessions.                                                                *)

\* A call that changes the role of one session of the slot manager.
LEMMA RoleKeeps ==
  ASSUME PInv, NEW h \in Sessions, Ready(h), NEW role \in {"PUBLIC", "USER", "SO"},
         core' = [core EXCEPT ![g_sessions[h].sess].role = role] \/ core' = core,
         disk' \in {tok, disk},
         UNCHANGED <<g_init, tok, g_sessions, g_secrets, alive, issued, opens, nkeys>>
  PROVE  PInv'
<1>1. CountsOK' /\ TokensOK' /\ TokGrows /\ SecretsGrow
  BY TokSame, SecretsSame DEF PInv, CountsOK, TokensOK, TokenOK
<1>2. SessionsOK'
  BY <1>1, SessionsKept DEF PInv
<1>3. CoreOK'
  <2> DEFINE c == g_sessions[h].sess
  <2>1. core \in [DOMAIN core -> CoreRec] /\ c \in DOMAIN core
    BY DEF PInv, CoreOK, Ready
  <2>2. /\ DOMAIN core' = DOMAIN core /\ core' \in [DOMAIN core' -> CoreRec]
        /\ \A d \in DOMAIN core : core'[d].slot = core[d].slot
    <3> HIDE DEF c
    <3>1. CASE core' = core
      BY <2>1, <3>1
    <3>2. CASE core' = [core EXCEPT ![c].role = role]
      BY <2>1, <3>2 DEF CoreRec
    <3> QED BY <3>1, <3>2 DEF c
  <2> QED BY <2>2 DEF PInv, CoreOK
<1>4. SecretsOK' /\ IssuedOK'
  <2>1. \A x \in issued : NamedOK(x)'
    BY <1>1, NamedKept DEF PInv, IssuedOK
  <2> QED BY <2>1 DEF PInv, SecretsOK, IssuedOK
<1> QED BY <1>1, <1>2, <1>3, <1>4 DEF PInv

\* C_Login and C_Logout.
LEMMA LoginKeeps ==
  ASSUME PInv, NEW h \in Sessions, C_Logout(h) \/ \E role \in {"USER", "SO"} : C_Login(h, role)
  PROVE  PInv'
<1>1. CASE C_Logout(h)
  BY <1>1, RoleKeeps DEF C_Logout
<1>2. ASSUME NEW role \in {"USER", "SO"}, C_Login(h, role) PROVE PInv'
  <2>1. Ready(h) /\ disk' \in {tok, disk} /\ role \in {"PUBLIC", "USER", "SO"}
    BY <1>2, PersistSame DEF C_Login
  <2>2. core' = [core EXCEPT ![g_sessions[h].sess].role = role] \/ core' = core
    BY <1>2 DEF C_Login
  <2>3. UNCHANGED <<g_init, tok, g_sessions, g_secrets, alive, issued, opens, nkeys>>
    BY <1>2 DEF C_Login
  <2> QED BY <2>1, <2>2, <2>3, RoleKeeps
<1> QED BY <1>1, <1>2

\* A closed entry has nothing in progress.
LEMMA BlankOK == CountsOK => SessionOK(BlankSession) /\ ~BlankSession.in_use
<1> HAVE CountsOK
<1>1. NoMessage \in Message /\ NoAead \in Aead /\ 1 \in Slots
  BY Constants, NoMessageOK DEF MessageOK, NoAead, Aead, Slots
<1>2. /\ BlankSession \in SessionRec /\ ~BlankSession.in_use
      /\ BlankSession.sign = NoMessage /\ BlankSession.verify = NoMessage
      /\ BlankSession.enc = NoAead /\ BlankSession.dec = NoAead /\ BlankSession.find = <<>>
  BY <1>1 DEF BlankSession, SessionRec
<1>3. AeadOK(NoAead)
  BY <1>1 DEF AeadOK, NoAead, CountsOK
<1> QED BY <1>2, <1>3, NoMessageOK DEF SessionOK

\* C_OpenSession takes a free entry and a session of the slot manager nobody has.
LEMMA OpenKeeps ==
  ASSUME PInv, NEW s \in Slots, C_OpenSession(s)
  PROVE  PInv'
<1> DEFINE n == opens + 1
<1>1. /\ g_init /\ opens' = n
      /\ UNCHANGED <<app, g_init, tok, disk, g_secrets, alive, issued, nkeys>>
      /\ core' = [c \in DOMAIN core \cup {n} |->
                    IF c = n THEN [slot |-> s, role |-> "PUBLIC"] ELSE core[c]]
  BY DEF C_OpenSession
<1>2. PICK h \in Sessions :
        /\ ~g_sessions[h].in_use
        /\ g_sessions' = [g_sessions EXCEPT ![h] =
             [BlankSession EXCEPT !.in_use = TRUE, !.sess = n, !.slot = s]]
  BY DEF C_OpenSession, SetSession, ClosedSession
<1>3. CountsOK /\ opens \in Nat /\ n \in Nat /\ SessionOK(BlankSession)
      /\ g_sessions \in [Sessions -> SessionRec]
  BY BlankOK DEF PInv, CountsOK, SessionsOK
<1>4. CountsOK' /\ TokensOK'
  BY <1>1, <1>3 DEF PInv, CountsOK, TokensOK, TokenOK
<1>5. TokGrows /\ SecretsGrow
  BY <1>1, TokSame, SecretsSame DEF PInv
<1> DEFINE e == [BlankSession EXCEPT !.in_use = TRUE, !.sess = n, !.slot = s]
<1>14. PICK y : y = e
  OBVIOUS
<1>6. /\ y \in SessionRec /\ y.in_use /\ y.sess = n /\ y.slot = s
      /\ y.sign = NoMessage /\ y.verify = NoMessage
      /\ y.enc = NoAead /\ y.dec = NoAead /\ y.find = <<>>
  <2>1. BlankSession \in SessionRec /\ BlankSession.sign = NoMessage
        /\ BlankSession.verify = NoMessage /\ BlankSession.enc = NoAead
        /\ BlankSession.dec = NoAead /\ BlankSession.find = <<>>
    BY <1>3 DEF SessionOK, BlankSession
  <2> HIDE DEF n
  <2>2. e \in SessionRec
    BY <1>3, <2>1 DEF SessionRec
  <2>3. e.in_use
    BY <2>1 DEF SessionRec
  <2>4. /\ e.sess = n /\ e.slot = s /\ e.sign = NoMessage /\ e.verify = NoMessage
        /\ e.enc = NoAead /\ e.dec = NoAead /\ e.find = <<>>
    BY <2>1 DEF SessionRec
  <2> HIDE DEF e
  <2> QED BY <1>14, <2>2, <2>3, <2>4
<1>7. g_sessions' = [g_sessions EXCEPT ![h] = y]
  BY <1>2, <1>14
<1> HIDE DEF e
<1>8. SessionOK(y)
  <2>1. AeadOK(NoAead)
    BY <1>3, BlankOK DEF SessionOK, BlankSession
  <2> QED BY <1>6, <2>1, NoMessageOK DEF SessionOK
<1>9. g_sessions'[h] = y /\ \A j \in Sessions \ {h} : g_sessions'[j] = g_sessions[j]
  BY <1>3, <1>7
<1>10. SessionsOK'
  <2>1. \A j \in Sessions : SessionOK(g_sessions[j])'
    <3> TAKE j \in Sessions
    <3>1. CASE j = h
      <4>1. SessionOK(y)'
        BY <1>4, <1>5, <1>8, SessionKept DEF PInv
      <4> QED BY <1>9, <3>1, <4>1
    <3>2. CASE j # h
      <4>1. g_sessions'[j] = g_sessions[j] /\ SessionOK(g_sessions[j])
        BY <1>9, <3>2 DEF PInv, SessionsOK
      <4> QED BY <1>4, <1>5, <4>1, SessionKept DEF PInv
    <3> QED BY <3>1, <3>2
  <2>2. g_sessions' \in [Sessions -> SessionRec]
    BY <1>3, <1>6, <1>7
  <2> QED BY <2>1, <2>2 DEF SessionsOK
<1>11. CoreOK'
  <2>1. \A c \in DOMAIN core : c \in 1..opens /\ c # n /\ c \in 1..opens' /\ core[c] \in CoreRec
    BY <1>1, <1>3 DEF PInv, CoreOK
  <2>2. DOMAIN core' = DOMAIN core \cup {n} /\ n \in 1..opens'
    BY <1>1, <1>3
  <2>3. /\ core'[n] = [slot |-> s, role |-> "PUBLIC"]
        /\ \A c \in DOMAIN core : core'[c] = core[c]
    BY <1>1, <2>1
  <2> HIDE DEF n
  <2>4. core'[n] \in CoreRec /\ core'[n].slot = s
    BY <2>3 DEF CoreRec
  <2>5. core' \in [DOMAIN core' -> CoreRec]
    <3>1. \A c \in DOMAIN core' : core'[c] \in CoreRec
      BY <2>1, <2>2, <2>3, <2>4
    <3> QED BY <1>1, <3>1
  <2>6. \A c \in DOMAIN core' : c \in 1..opens' /\
          \E j \in Sessions : g_sessions'[j].in_use /\ g_sessions'[j].sess = c
    <3> TAKE c \in DOMAIN core'
    <3>1. CASE c = n
      BY <1>6, <1>9, <2>2, <3>1
    <3>2. CASE c # n
      <4>1. c \in DOMAIN core /\ c \in 1..opens'
        BY <2>1, <2>2, <3>2
      <4>2. PICK j \in Sessions : g_sessions[j].in_use /\ g_sessions[j].sess = c
        BY <4>1 DEF PInv, CoreOK
      <4>3. j # h
        BY <1>2, <4>2
      <4> QED BY <1>9, <4>1, <4>2, <4>3
    <3> QED BY <3>1, <3>2
  <2>7. \A j \in Sessions : g_sessions'[j].in_use =>
          /\ g_sessions'[j].sess \in DOMAIN core'
          /\ core'[g_sessions'[j].sess].slot = g_sessions'[j].slot
          /\ g_init'
    <3> SUFFICES ASSUME NEW j \in Sessions, g_sessions'[j].in_use
                 PROVE  /\ g_sessions'[j].sess \in DOMAIN core'
                        /\ core'[g_sessions'[j].sess].slot = g_sessions'[j].slot
                        /\ g_init'
      OBVIOUS
    <3>1. CASE j = h
      BY <1>1, <1>6, <1>9, <2>2, <2>4, <3>1
    <3>2. CASE j # h
      <4>1. /\ g_sessions'[j] = g_sessions[j] /\ g_sessions[j].sess \in DOMAIN core
            /\ core[g_sessions[j].sess].slot = g_sessions[j].slot
        BY <1>9, <3>2 DEF PInv, CoreOK
      <4> QED BY <1>1, <2>2, <2>3, <4>1
    <3> QED BY <3>1, <3>2
  <2>8. \A j, k \in Sessions :
          g_sessions'[j].in_use /\ g_sessions'[k].in_use /\ g_sessions'[j].sess = g_sessions'[k].sess
            => j = k
    <3>1. \A j \in Sessions \ {h} : g_sessions[j].in_use => g_sessions[j].sess # n
      BY <2>1 DEF PInv, CoreOK
    <3> QED BY <1>6, <1>9, <3>1 DEF PInv, CoreOK
  <2> QED BY <2>5, <2>6, <2>7, <2>8 DEF CoreOK
<1>12. SecretsOK'
  <2>1. \A i \in Secrets : g_secrets[i].in_use => g_secrets[i].owner \in Sessions \ {h}
    BY <1>2 DEF PInv, SecretsOK
  <2> QED BY <1>1, <1>9, <2>1 DEF PInv, SecretsOK
<1>13. IssuedOK'
  BY <1>1, <1>4, <1>5, NamedKept DEF PInv, IssuedOK
<1> QED BY <1>4, <1>10, <1>11, <1>12, <1>13 DEF PInv

\* Sessions that close take their operations, their session of the slot manager and their
\* session objects with them, and leave the other entries alone.
LEMMA CloseKeeps ==
  ASSUME PInv, NEW H \in SUBSET Sessions, \A h \in H : g_sessions[h].in_use,
         CloseSessions(H),
         UNCHANGED <<g_init, tok, disk, issued, opens, nkeys>>
  PROVE  PInv'
<1> DEFINE C == {g_sessions[h].sess : h \in H}
<1>1. /\ core' = [c \in DOMAIN core \ C |-> core[c]]
      /\ g_secrets' = [i \in Secrets |-> IF g_secrets[i].owner \in H THEN NoSecret
                                         ELSE g_secrets[i]]
      /\ alive' = {k \in alive : \A i \in Secrets : g_secrets[i].id = k =>
                                                    g_secrets[i].owner \notin H}
      /\ g_sessions' = [h \in Sessions |-> IF h \in H THEN BlankSession ELSE g_sessions[h]]
  BY DEF CloseSessions, secrets_drop_owner, ClosedSession, Restrict
<1>2. /\ \A h \in H : g_sessions'[h] = BlankSession
      /\ \A h \in Sessions \ H : g_sessions'[h] = g_sessions[h]
  BY <1>1
<1>3. CountsOK' /\ TokensOK'
  <2>1. alive' \subseteq alive
    BY <1>1
  <2> QED BY <2>1 DEF PInv, CountsOK, TokensOK, TokenOK
<1>4. TokGrows
  BY TokSame DEF PInv
<1>5. SecretsGrow
  <2>1. \A k \in alive' : k \in alive /\
          \A i \in Secrets : g_secrets[i].id = k => g_secrets'[i].id = k
    BY <1>1
  <2>2. nkeys <= nkeys'
    BY DEF PInv, CountsOK
  <2> QED BY <2>1, <2>2 DEF SecretsGrow
<1>6. SessionOK(BlankSession) /\ ~BlankSession.in_use
  BY BlankOK DEF PInv
<1>7. SessionsOK'
  <2>1. \A j \in Sessions : SessionOK(g_sessions[j])'
    <3> TAKE j \in Sessions
    <3>1. CASE j \in H
      <4>1. PICK b : b = BlankSession
        OBVIOUS
      <4>2. SessionOK(b)'
        BY <1>3, <1>4, <1>5, <1>6, <4>1, SessionKept DEF PInv
      <4> QED BY <1>2, <3>1, <4>1, <4>2
    <3>2. CASE j \notin H
      <4>1. g_sessions'[j] = g_sessions[j] /\ SessionOK(g_sessions[j])
        BY <1>2, <3>2 DEF PInv, SessionsOK
      <4> QED BY <1>3, <1>4, <4>1, SessionKept, <1>5 DEF PInv
    <3> QED BY <3>1, <3>2
  <2>2. BlankSession \in SessionRec
    BY <1>6 DEF SessionOK
  <2>3. g_sessions' \in [Sessions -> SessionRec]
    BY <1>1, <2>2 DEF PInv, SessionsOK
  <2> QED BY <2>1, <2>3 DEF SessionsOK
<1>8. \A h \in Sessions : g_sessions'[h].in_use =>
        h \notin H /\ g_sessions'[h] = g_sessions[h] /\ g_sessions[h].in_use
  BY <1>2, <1>6
<1>9. CoreOK'
  <2>1. DOMAIN core' = DOMAIN core \ C /\ \A c \in DOMAIN core' : core'[c] = core[c]
    BY <1>1
  <2>2. \A h \in Sessions \ H : g_sessions[h].in_use => g_sessions[h].sess \notin C
    BY DEF PInv, CoreOK
  <2>3. core' \in [DOMAIN core' -> CoreRec]
    <3>1. \A c \in DOMAIN core' : core'[c] \in CoreRec
      BY <2>1 DEF PInv, CoreOK
    <3> QED BY <1>1, <3>1
  <2>4. \A c \in DOMAIN core' : c \in 1..opens' /\
          \E j \in Sessions : g_sessions'[j].in_use /\ g_sessions'[j].sess = c
    <3> TAKE c \in DOMAIN core'
    <3>1. c \in DOMAIN core /\ c \notin C
      BY <2>1
    <3>2. PICK j \in Sessions : g_sessions[j].in_use /\ g_sessions[j].sess = c
      BY <3>1 DEF PInv, CoreOK
    <3>3. j \notin H
      BY <3>1, <3>2
    <3>4. c \in 1..opens'
      BY <3>1 DEF PInv, CoreOK
    <3> QED BY <1>2, <3>2, <3>3, <3>4
  <2>5. \A j \in Sessions : g_sessions'[j].in_use =>
          /\ g_sessions'[j].sess \in DOMAIN core'
          /\ core'[g_sessions'[j].sess].slot = g_sessions'[j].slot
          /\ g_init'
    <3> SUFFICES ASSUME NEW j \in Sessions, g_sessions'[j].in_use
                 PROVE  /\ g_sessions'[j].sess \in DOMAIN core'
                        /\ core'[g_sessions'[j].sess].slot = g_sessions'[j].slot
                        /\ g_init'
      OBVIOUS
    <3>1. j \notin H /\ g_sessions'[j] = g_sessions[j] /\ g_sessions[j].in_use
      BY <1>8
    <3>2. /\ g_sessions[j].sess \in DOMAIN core
          /\ core[g_sessions[j].sess].slot = g_sessions[j].slot
          /\ g_init
      BY <3>1 DEF PInv, CoreOK
    <3>3. g_sessions[j].sess \in DOMAIN core'
      BY <2>1, <2>2, <3>1, <3>2
    <3> QED BY <2>1, <3>1, <3>2, <3>3
  <2>6. \A j, k \in Sessions :
          g_sessions'[j].in_use /\ g_sessions'[k].in_use /\ g_sessions'[j].sess = g_sessions'[k].sess
            => j = k
    BY <1>8 DEF PInv, CoreOK
  <2> QED BY <2>3, <2>4, <2>5, <2>6 DEF CoreOK
<1>10. SecretsOK'
  <2>1. NoSecret \in SecretRec /\ ~NoSecret.in_use
    BY Constants DEF NoSecret, SecretRec
  <2>2. g_secrets' \in [Secrets -> SecretRec]
    BY <1>1, <2>1 DEF PInv, SecretsOK
  <2>3. \A i \in Secrets : g_secrets'[i] = NoSecret \/
                           (g_secrets'[i] = g_secrets[i] /\ g_secrets[i].owner \notin H)
    BY <1>1
  <2>4. ASSUME NEW i \in Secrets, g_secrets'[i].in_use
        PROVE  /\ g_secrets'[i].owner \in Sessions /\ g_secrets'[i].id \in 1..nkeys'
               /\ g_sessions'[g_secrets'[i].owner].in_use
               /\ g_sessions'[g_secrets'[i].owner].sess = g_secrets'[i].sess
    <3>1. g_secrets'[i] = g_secrets[i] /\ g_secrets[i].owner \notin H
      BY <2>1, <2>3, <2>4
    <3>2. /\ g_secrets[i].owner \in Sessions /\ g_secrets[i].id \in 1..nkeys
          /\ g_sessions[g_secrets[i].owner].in_use
          /\ g_sessions[g_secrets[i].owner].sess = g_secrets[i].sess
      BY <2>4, <3>1 DEF PInv, SecretsOK
    <3> QED BY <1>2, <3>1, <3>2
  <2>5. \A i \in Secrets : ~g_secrets'[i].in_use => g_secrets'[i] = NoSecret
    BY <2>3 DEF PInv, SecretsOK
  <2> QED BY <2>2, <2>4, <2>5 DEF SecretsOK
<1>11. IssuedOK'
  BY <1>3, <1>4, NamedKept DEF PInv, IssuedOK
<1> QED BY <1>3, <1>7, <1>9, <1>10, <1>11 DEF PInv

\* C_CloseSession and C_CloseAllSessions.
LEMMA CloseCallKeeps ==
  ASSUME PInv,
         \/ \E h \in Sessions : C_CloseSession(h)
         \/ \E s \in Slots : C_CloseAllSessions(s)
  PROVE  PInv'
<1>1. ASSUME NEW h \in Sessions, C_CloseSession(h) PROVE PInv'
  BY <1>1, CloseKeeps DEF C_CloseSession, Ready
<1>2. ASSUME NEW s \in Slots, C_CloseAllSessions(s) PROVE PInv'
  BY <1>2, CloseKeeps DEF C_CloseAllSessions, OfSlot
<1> QED BY <1>1, <1>2
-----------------------------------------------------------------------------
(* The library.                                                             *)

\* With every entry closed, no secret, no handle and a token as it should be, all is well:
\* the state after C_Initialize, C_Finalize, a crash, and at the start.
Empty ==
  /\ core = <<>> /\ g_sessions = AllClosed /\ g_secrets = NoSecrets /\ issued = {}
  /\ opens \in Nat /\ nkeys \in Nat /\ alive = {} /\ g_init \in BOOLEAN

\* Such a state meets the invariant.
LEMMA EmptyOK == Empty /\ TokensOK => PInv
<1> HAVE Empty /\ TokensOK
<1>1. CountsOK /\ IssuedOK
  BY DEF Empty, CountsOK, IssuedOK
<1>2. SessionOK(BlankSession) /\ ~BlankSession.in_use /\ BlankSession \in SessionRec
  BY <1>1, BlankOK DEF SessionOK
<1>3. \A h \in Sessions : g_sessions[h] = BlankSession
  BY DEF Empty, AllClosed
<1>4. SessionsOK
  BY <1>2, <1>3 DEF Empty, AllClosed, SessionsOK
<1>5. CoreOK
  <2>1. DOMAIN core = {} /\ core \in [DOMAIN core -> CoreRec]
    BY DEF Empty
  <2> QED BY <1>2, <1>3, <2>1 DEF CoreOK
<1>6. SecretsOK
  BY Constants DEF Empty, NoSecrets, NoSecret, SecretsOK, SecretRec
<1> QED BY <1>1, <1>4, <1>5, <1>6 DEF PInv

\* C_Finalize, and a process that is killed.
LEMMA GoneKeeps ==
  ASSUME PInv, C_Finalize \/ Crash
  PROVE  PInv'
<1>1. Gone /\ tok' = disk' /\ disk' \in {tok, disk}
  BY PersistSame DEF C_Finalize, Crash
<1>2. Empty'
  BY <1>1 DEF Gone, Empty, PInv, CountsOK
<1>3. TokensOK'
  BY <1>1 DEF PInv, TokensOK, TokenOK
<1>4. (Empty /\ TokensOK => PInv)'
  BY EmptyOK, PTL
<1> QED BY <1>2, <1>3, <1>4

\* Before C_Initialize nothing is open.
LEMMA DownIsEmpty ==
  ASSUME PInv, ~g_init
  PROVE  /\ \A h \in Sessions : g_sessions[h] = BlankSession
         /\ \A i \in Secrets : g_secrets[i] = NoSecret
         /\ DOMAIN core = {} /\ issued = {}
<1>1. \A h \in Sessions : g_sessions[h] = BlankSession /\ ~g_sessions[h].in_use
  BY DEF PInv, SessionsOK, SessionOK, CoreOK
<1>2. \A i \in Secrets : g_secrets[i] = NoSecret
  BY <1>1 DEF PInv, SecretsOK
<1> QED BY <1>1, <1>2 DEF PInv, CoreOK, IssuedOK

\* C_Initialize reads the file again.
LEMMA InitializeKeeps ==
  ASSUME PInv, C_Initialize
  PROVE  PInv'
<1>1. /\ ~g_init /\ g_init' = TRUE /\ tok' = disk /\ g_sessions' = AllClosed
      /\ UNCHANGED <<disk, core, g_secrets, alive, issued, opens, nkeys>>
  BY DEF C_Initialize
<1>2. TokensOK' /\ CountsOK'
  BY <1>1 DEF PInv, TokensOK, TokenOK, CountsOK
<1>3. /\ \A i \in Secrets : g_secrets[i] = NoSecret
      /\ DOMAIN core = {} /\ issued = {}
  BY <1>1, DownIsEmpty
<1>4. SessionOK(BlankSession)' /\ ~BlankSession.in_use
  <2>1. (CountsOK => SessionOK(BlankSession) /\ ~BlankSession.in_use)'
    BY BlankOK, PTL
  <2> QED BY <1>2, <2>1
<1>5. \A h \in Sessions : g_sessions'[h] = BlankSession
  BY <1>1 DEF AllClosed
<1>6. SessionsOK'
  <2>1. \A h \in Sessions : SessionOK(g_sessions[h])'
    BY <1>4, <1>5
  <2>2. BlankSession \in SessionRec
    BY <1>4 DEF SessionOK
  <2> QED BY <1>1, <2>1, <2>2 DEF SessionsOK, AllClosed
<1>7. CoreOK'
  BY <1>1, <1>3, <1>4, <1>5 DEF PInv, CoreOK
<1>8. SecretsOK'
  BY <1>1, <1>3 DEF PInv, SecretsOK, NoSecret
<1>9. IssuedOK'
  BY <1>1, <1>3 DEF IssuedOK
<1> QED BY <1>2, <1>6, <1>7, <1>8, <1>9 DEF PInv
-----------------------------------------------------------------------------
(* The invariant.                                                           *)

\* It holds of the token found in the file, before the library starts.
LEMMA InitPInv == Init => PInv
<1> HAVE Init
<1>1. Empty
  BY DEF Init, Empty
<1>2. tok = disk /\ disk \in {[s \in Slots |-> BlankSlot],
        [s \in Slots |-> [BlankSlot EXCEPT !.state = "EMPTY", !.user_pin = TRUE]]}
  BY DEF Init
<1> DEFINE ready == [BlankSlot EXCEPT !.state = "EMPTY", !.user_pin = TRUE]
<1>3. /\ BlankSlot \in SlotRec /\ BlankSlot.key = 0 /\ BlankSlot.state # "LOADED"
      /\ ready \in SlotRec /\ ready.key = 0 /\ ready.state # "LOADED"
  BY DEF BlankSlot, SlotRec
<1> HIDE DEF ready
<1>4. TokensOK
  <2>1. CASE disk = [s \in Slots |-> BlankSlot]
    BY <1>2, <1>3, <2>1 DEF TokensOK, TokenOK
  <2>2. CASE disk = [s \in Slots |-> ready]
    BY <1>2, <1>3, <2>2 DEF TokensOK, TokenOK
  <2> QED BY <1>2, <2>1, <2>2 DEF ready
<1> QED BY <1>1, <1>4, EmptyOK

\* Any call of an open session keeps it.
LEMMA SessionCallKeeps ==
  ASSUME PInv, NEW h \in Sessions, SessionCall(h)
  PROVE  PInv'
<1>1. CASE C_InitPIN(h) \/ C_CloseSession(h) \/ C_Logout(h)
             \/ \E role \in {"USER", "SO"} : C_Login(h, role)
  BY <1>1, InitPINKeeps, CloseCallKeeps, LoginKeeps
<1>2. CASE (\E alg \in {"sig", "kem"} : C_GenerateKeyPair(h, alg)) \/ C_CreateObject(h)
  BY <1>2, GenerateKeeps, CreateKeeps
<1>3. CASE C_FindObjectsInit(h) \/ C_FindObjects(h) \/ C_FindObjectsFinal(h)
  BY <1>3, FindInitKeeps, FindKeeps, FindFinalKeeps
<1>4. CASE \E f \in {"sign", "verify"} : Update(h, f)
  BY <1>4, UpdateKeeps
<1>5. CASE C_Sign(h) \/ C_SignFinal(h) \/ C_Verify(h) \/ C_VerifyFinal(h)
  BY <1>5, OneCallKeeps, FinalKeeps
<1>6. CASE \E f \in {"enc", "dec"} : AeadRun(h, f)
  BY <1>6, AeadRunKeeps
<1>7. ASSUME NEW x \in issued,
             \/ C_DestroyObject(h, x.obj)
             \/ C_SignInit(h, x) \/ C_VerifyInit(h, x)
             \/ C_EncapsulateKey(h, x.obj) \/ C_DecapsulateKey(h, x.obj)
             \/ \E f \in {"enc", "dec"} : aead_init(h, f, x)
      PROVE  PInv'
  <2>1. CASE C_DestroyObject(h, x.obj)
    BY <2>1, DestroyKeeps
  <2>2. CASE C_SignInit(h, x) \/ C_VerifyInit(h, x)
    BY <2>2, MessageInitKeeps
  <2>3. CASE C_EncapsulateKey(h, x.obj) \/ C_DecapsulateKey(h, x.obj)
    BY <2>3, KemKeeps
  <2>4. CASE \E f \in {"enc", "dec"} : aead_init(h, f, x)
    BY <2>4, AeadInitKeeps
  <2> QED BY <1>7, <2>1, <2>2, <2>3, <2>4
<1> QED BY <1>1, <1>2, <1>3, <1>4, <1>5, <1>6, <1>7 DEF SessionCall

\* The invariant is inductive: every call, and every end of the process, keeps it.
LEMMA PInvStep == PInv /\ [Next]_vars => PInv'
<1> SUFFICES ASSUME PInv, [Next]_vars PROVE PInv'
  OBVIOUS
<1>1. CASE C_Initialize
  BY <1>1, InitializeKeeps
<1>2. CASE C_Finalize \/ Crash
  BY <1>2, GoneKeeps
<1>3. ASSUME NEW s \in Slots, C_InitToken(s) \/ C_OpenSession(s) \/ C_CloseAllSessions(s)
      PROVE  PInv'
  BY <1>3, InitTokenKeeps, OpenKeeps, CloseCallKeeps
<1>4. ASSUME NEW h \in Sessions, SessionCall(h) PROVE PInv'
  BY <1>4, SessionCallKeeps
<1>5. CASE UNCHANGED vars
  <2>1. UNCHANGED <<g_init, tok, disk, core, g_sessions, g_secrets, issued, opens, alive, nkeys>>
    BY <1>5 DEF vars
  <2>2. CountsOK' /\ TokensOK' /\ TokGrows /\ SecretsGrow
    BY <2>1, TokSame, SecretsSame DEF PInv, CountsOK, TokensOK, TokenOK
  <2>3. SessionsOK'
    BY <2>1, <2>2, SessionsKept DEF PInv
  <2>4. CoreOK' /\ SecretsOK'
    BY <2>1 DEF PInv, CoreOK, SecretsOK
  <2>5. IssuedOK'
    BY <2>1, <2>2, NamedKept DEF PInv, IssuedOK
  <2> QED BY <2>2, <2>3, <2>4, <2>5 DEF PInv
<1> QED BY <1>1, <1>2, <1>3, <1>4, <1>5 DEF Next

\* PInv holds of every state the library reaches.
LEMMA PInvHolds == Spec => []PInv
BY InitPInv, PInvStep, PTL DEF Spec
-----------------------------------------------------------------------------
(* What follows from it.                                                    *)

\* The state is what the C types and tables of p11_module.c allow, and a slot has a key
\* exactly when it is LOADED, whatever calls are made.
THEOREM P11Types == Spec => []TypeOK
<1>1. PInv => TypeOK
  <2> HAVE PInv
  <2>1. \A c \in DOMAIN core : c <= opens /\ core[c] \in [slot : Slots, role : {"PUBLIC", "USER", "SO"}]
    <3> TAKE c \in DOMAIN core
    <3>1. c \in 1..opens /\ core[c] \in CoreRec /\ opens \in Nat
      BY DEF PInv, CoreOK, CountsOK
    <3> QED BY <3>1 DEF CoreRec
  <2>2. /\ g_init \in BOOLEAN
        /\ opens \in Nat /\ nkeys \in Nat /\ alive \subseteq 1..nkeys
    BY DEF PInv, CountsOK
  <2>3. /\ g_sessions \in [Sessions -> SessionRec] /\ g_secrets \in [Secrets -> SecretRec]
        /\ issued \subseteq Issued
    BY DEF PInv, SessionsOK, SecretsOK, IssuedOK, NamedOK
  <2>4. TokenOK(tok) /\ TokenOK(disk)
    BY DEF PInv, TokensOK
  <2> QED BY <2>1, <2>2, <2>3, <2>4, Zenon DEF TypeOK, TokenOK, SlotRec, SessionRec, SecretRec
<1> QED BY <1>1, PInvHolds, PTL

\* A handle the application kept never reaches a key it was not returned for, short of a
\* multiple of Gens (2^18) generations of its slot: core_handle_of compares low bits only,
\* but a slot's generation moves with every key that goes and is never set back.
THEOREM HandlesReachTheirKey == Spec => []HandleReachesItsKey
<1>1. PInv => HandleReachesItsKey
  <2> SUFFICES ASSUME PInv, NEW x \in issued,
                      core_handle_of(x.obj), tok[x.obj[2]].state = "LOADED"
               PROVE  \/ tok[x.obj[2]].key = x.key
                      \/ tok[x.obj[2]].gen > x.gen /\ (tok[x.obj[2]].gen - x.gen) % Gens = 0
    BY DEF HandleReachesItsKey
  <2> DEFINE s == x.obj[2]
  <2>1. NamedOK(x) /\ x.obj \in Handles /\ x.gen \in Nat /\ ~IsSecret(x.obj)
        /\ x.obj[3] = tok[s].gen % Gens
    BY DEF PInv, IssuedOK, NamedOK, Issued, core_handle_of
  <2>2. s \in Slots /\ tok[s].gen \in Nat
    BY <2>1, HandleParts DEF PInv, TokensOK, TokenOK, SlotRec
  <2>3. x.gen % Gens = tok[s].gen % Gens /\ x.gen <= tok[s].gen
        /\ (x.gen = tok[s].gen => tok[s].key = x.key)
    BY <2>1 DEF NamedOK
  <2>4. (tok[s].gen - x.gen) % Gens = 0
    BY <2>1, <2>2, <2>3, SameLowBits
  <2>5. x.gen = tok[s].gen \/ tok[s].gen > x.gen
    BY <2>1, <2>2, <2>3
  <2> QED BY <2>3, <2>4, <2>5
<1> QED BY <1>1, PInvHolds, PTL

\* C_SignFinal and C_VerifyFinal take the parts given since the Init, unless an operation
\* with parts was replaced by another Init or ended by C_Sign or C_Verify.
THEOREM PartsAreTheMessage == Spec => []PartsUnlessCut
<1>1. PInv => PartsUnlessCut
  <2> SUFFICES ASSUME PInv, NEW h \in Sessions, NEW f \in {"sign", "verify"},
                      g_sessions[h][f].active, ~g_sessions[h][f].cut
               PROVE  g_sessions[h][f].acc = g_sessions[h][f].parts
    BY DEF PartsUnlessCut
  <2>1. MessageOK(g_sessions[h].sign, g_sessions[h].sess)
        /\ MessageOK(g_sessions[h].verify, g_sessions[h].sess)
    BY DEF PInv, SessionsOK, SessionOK
  <2>2. CASE f = "sign"
    BY <2>1, <2>2 DEF MessageOK
  <2>3. CASE f = "verify"
    BY <2>1, <2>3 DEF MessageOK
  <2> QED BY <2>2, <2>3
<1> QED BY <1>1, PInvHolds, PTL

\* The next session in an entry of g_sessions finds nothing of the one before, and a
\* session object belongs to the open session that made it: C_CloseSession,
\* C_CloseAllSessions and the end of the process leave nothing behind.
THEOREM NothingIsLeftBehind == Spec => []NothingOutlivesItsSession
<1>1. PInv => NothingOutlivesItsSession
  <2> HAVE PInv
  <2>1. \A h \in Sessions : SessionOK(g_sessions[h])
    BY DEF PInv, SessionsOK
  <2>2. ASSUME NEW h \in Sessions, NEW f \in {"sign", "verify"}
        PROVE  Range(g_sessions[h][f].acc) \subseteq {g_sessions[h].sess}
    <3> DEFINE m == g_sessions[h][f]
    <3>1. MessageOK(m, g_sessions[h].sess)
      BY <2>1, <2>2 DEF SessionOK
    <3>2. m.acc \in Seq(Nat) /\ DOMAIN m.acc = 1..Len(m.acc)
          /\ \A i \in 1..Len(m.acc) : m.acc[i] = g_sessions[h].sess
      BY <3>1 DEF MessageOK, Message
    <3> HIDE DEF m
    <3>3. Range(m.acc) \subseteq {g_sessions[h].sess}
      BY <3>2 DEF Range
    <3> QED BY <3>3 DEF m
  <2>3. \A h \in Sessions : ~g_sessions[h].in_use => g_sessions[h] = BlankSession
    BY <2>1 DEF SessionOK
  <2>4. \A i \in Secrets : g_secrets[i].in_use =>
          /\ g_sessions[g_secrets[i].owner].in_use
          /\ g_sessions[g_secrets[i].owner].sess = g_secrets[i].sess
    BY DEF PInv, SecretsOK
  <2> QED BY <2>2, <2>3, <2>4, Zenon DEF NothingOutlivesItsSession
<1> QED BY <1>1, PInvHolds, PTL

\* C_Encrypt and C_Decrypt, which look the key up again by its entry, use the secret of
\* their Init while that object is alive.
THEOREM AeadKeyIsChosen == Spec => []AeadUsesChosenKey
<1>1. PInv => AeadUsesChosenKey
  <2> SUFFICES ASSUME PInv, NEW h \in Sessions, NEW f \in {"enc", "dec"},
                      g_sessions[h][f].active, g_sessions[h][f].want \in alive
               PROVE  g_secrets[g_sessions[h][f].key].id = g_sessions[h][f].want
    BY DEF AeadUsesChosenKey
  <2>1. AeadOK(g_sessions[h].enc) /\ AeadOK(g_sessions[h].dec)
    BY DEF PInv, SessionsOK, SessionOK
  <2>2. CASE f = "enc"
    BY <2>1, <2>2 DEF AeadOK
  <2>3. CASE f = "dec"
    BY <2>1, <2>3 DEF AeadOK
  <2> QED BY <2>2, <2>3
<1> QED BY <1>1, PInvHolds, PTL

\* Every session of the slot manager belongs to one open entry, on its slot, and each open
\* entry has one: closing, finalising and a crash leave none in its smaller table.
THEOREM SlotSessionsAreOwned == Spec => []CoreSessionsOwned
<1>1. PInv => CoreSessionsOwned
  <2> HAVE PInv
  <2> DEFINE Open == {h \in Sessions : g_sessions[h].in_use}
             id == [h \in Open |-> g_sessions[h].sess]
  <2>1. /\ \A c \in DOMAIN core : \E h \in Open : g_sessions[h].sess = c
        /\ \A h \in Open : /\ g_sessions[h].sess \in DOMAIN core
                           /\ core[g_sessions[h].sess].slot = g_sessions[h].slot
                           /\ g_init
        /\ \A h, j \in Open : g_sessions[h].sess = g_sessions[j].sess => h = j
    BY DEF PInv, CoreOK
  <2>2. id \in Bijection(Open, DOMAIN core)
    <3>1. id \in [Open -> DOMAIN core] /\ \A h, j \in Open : id[h] = id[j] => h = j
      BY <2>1
    <3>2. \A c \in DOMAIN core : \E h \in Open : id[h] = c
      BY <2>1
    <3> HIDE DEF id, Open
    <3> QED BY <3>1, <3>2 DEF Bijection, Injection, IsInjective, Surjection
  <2>3. IsFiniteSet(Open)
    <3>1. IsFiniteSet(Sessions)
      BY Constants, FS_Interval DEF Sessions
    <3> QED BY <3>1, FS_Subset
  <2>4. Cardinality(DOMAIN core) = Cardinality(Open)
    <3> HIDE DEF id, Open
    <3> QED BY <2>2, <2>3, FS_Bijection DEF ExistsBijection
  <2>5. DOMAIN core = {g_sessions[h].sess : h \in Open}
    BY <2>1
  <2> QED BY <2>1, <2>4, <2>5 DEF CoreSessionsOwned
<1> QED BY <1>1, PInvHolds, PTL
-----------------------------------------------------------------------------
(* One call, one slot.                                                      *)

\* The open sessions and the session objects of the slots other than s stay as they are.
SparesOthers(s) ==
  /\ \A h \in Sessions : g_sessions[h].in_use /\ SlotOf(h) # s =>
       /\ g_sessions'[h] = g_sessions[h]
       /\ core'[g_sessions[h].sess] = core[g_sessions[h].sess]
  /\ \A i \in Secrets : g_secrets[i].in_use /\ SlotOf(g_secrets[i].owner) # s =>
       g_secrets'[i] = g_secrets[i]

\* Every entry is on some slot.
LEMMA SlotOfSession == ASSUME PInv, NEW h \in Sessions PROVE SlotOf(h) \in Slots
BY DEF PInv, SessionsOK, SessionRec, SlotOf

\* A call that changes at most one entry of the session table.
LEMMA EntrySpares ==
  ASSUME PInv, NEW h \in Sessions, \A j \in Sessions \ {h} : g_sessions'[j] = g_sessions[j],
         UNCHANGED <<core, g_secrets>>
  PROVE  SparesOthers(SlotOf(h))
BY DEF SparesOthers

\* SetSession is one.
LEMMA SetSessionSpares ==
  ASSUME PInv, NEW h \in Sessions, NEW y, SetSession(h, y), UNCHANGED <<core, g_secrets>>
  PROVE  SparesOthers(SlotOf(h))
<1>1. \A j \in Sessions \ {h} : g_sessions'[j] = g_sessions[j]
  BY DEF SetSession, PInv, SessionsOK
<1> QED BY <1>1, EntrySpares

\* So are all calls that work on what a session has in progress.
LEMMA ProgressSpares ==
  ASSUME PInv, NEW h \in Sessions,
         \/ C_FindObjectsInit(h) \/ C_FindObjects(h) \/ C_FindObjectsFinal(h)
         \/ \E f \in {"sign", "verify"} : Update(h, f)
         \/ C_Sign(h) \/ C_SignFinal(h) \/ C_Verify(h) \/ C_VerifyFinal(h)
         \/ \E f \in {"enc", "dec"} : AeadRun(h, f)
         \/ \E x \in issued : \/ C_SignInit(h, x) \/ C_VerifyInit(h, x)
                              \/ \E f \in {"enc", "dec"} : aead_init(h, f, x)
  PROVE  SparesOthers(SlotOf(h))
<1>1. CASE C_FindObjectsInit(h) \/ C_FindObjects(h) \/ C_FindObjectsFinal(h)
  BY <1>1, SetSessionSpares DEF C_FindObjectsInit, C_FindObjects, C_FindObjectsFinal
<1>2. CASE \E f \in {"sign", "verify"} : Update(h, f)
  BY <1>2, SetSessionSpares DEF Update, EndParts
<1>3. CASE C_Sign(h) \/ C_SignFinal(h) \/ C_Verify(h) \/ C_VerifyFinal(h)
  BY <1>3, SetSessionSpares DEF C_Sign, C_SignFinal, C_Verify, C_VerifyFinal, EndOneCall, EndParts
<1>4. CASE \E f \in {"enc", "dec"} : AeadRun(h, f)
  BY <1>4, SetSessionSpares DEF AeadRun
<1>5. CASE \E x \in issued : C_SignInit(h, x) \/ C_VerifyInit(h, x)
  BY <1>5, SetSessionSpares DEF C_SignInit, C_VerifyInit, MessageInit
<1>6. CASE \E x \in issued : \E f \in {"enc", "dec"} : aead_init(h, f, x)
  BY <1>6, SetSessionSpares DEF aead_init
<1> QED BY <1>1, <1>2, <1>3, <1>4, <1>5, <1>6

\* A login or a logout changes the role of one session of the slot manager, and no two
\* entries share one.
LEMMA RoleSpares ==
  ASSUME PInv, NEW h \in Sessions, C_Logout(h) \/ \E role \in {"USER", "SO"} : C_Login(h, role)
  PROVE  SparesOthers(SlotOf(h))
<1> DEFINE c == g_sessions[h].sess
<1>1. Ready(h) /\ UNCHANGED <<g_sessions, g_secrets>>
  BY DEF C_Login, C_Logout
<1>2. \A d \in DOMAIN core \ {c} : core'[d] = core[d]
  BY DEF C_Login, C_Logout
<1>3. ASSUME NEW j \in Sessions, g_sessions[j].in_use, SlotOf(j) # SlotOf(h)
      PROVE  g_sessions[j].sess \in DOMAIN core \ {c}
  BY <1>1, <1>3 DEF PInv, CoreOK, Ready
<1> QED BY <1>1, <1>2, <1>3 DEF SparesOthers

\* A new session object takes an entry nobody uses.
LEMMA NewSecretSpares ==
  ASSUME PInv, NEW h \in Sessions, NewSecret(h), UNCHANGED <<core, g_sessions>>
  PROVE  SparesOthers(SlotOf(h))
<1>1. PICK i \in Secrets : ~g_secrets[i].in_use /\ \A j \in Secrets \ {i} : g_secrets'[j] = g_secrets[j]
  BY DEF NewSecret, secret_alloc, PInv, SecretsOK
<1> QED BY <1>1 DEF SparesOthers

\* C_DestroyObject may destroy a session object of another session: of the owner's slot.
LEMMA DestroySpares ==
  ASSUME PInv, NEW h \in Sessions, NEW o, C_DestroyObject(h, o)
  PROVE  \E s \in Slots : SparesOthers(s)
<1>1. UNCHANGED <<core, g_sessions>>
  BY DEF C_DestroyObject
<1>2. CASE secret_at(o[2]) /\ g_secrets' = [g_secrets EXCEPT ![o[2]] = NoSecret]
  <2> DEFINE j == g_secrets[o[2]].owner
  <2>1. j \in Sessions
    BY <1>2 DEF secret_at, PInv, SecretsOK
  <2>2. SparesOthers(SlotOf(j))
    BY <1>1, <1>2 DEF SparesOthers, secret_at, PInv, SecretsOK
  <2> QED BY <2>1, <2>2, SlotOfSession
<1>3. CASE UNCHANGED g_secrets
  BY <1>1, <1>3, SlotOfSession DEF SparesOthers
<1> QED BY <1>2, <1>3 DEF C_DestroyObject

\* Sessions of one slot that close.
LEMMA CloseSpares ==
  ASSUME PInv, NEW s \in Slots, NEW H \in SUBSET OfSlot(s), CloseSessions(H)
  PROVE  SparesOthers(s)
<1> DEFINE C == {g_sessions[h].sess : h \in H}
<1>1. \A h \in H : h \in Sessions /\ g_sessions[h].in_use /\ SlotOf(h) = s
  BY DEF OfSlot, SlotOf
<1>2. /\ core' = [c \in DOMAIN core \ C |-> core[c]]
      /\ g_secrets' = [i \in Secrets |-> IF g_secrets[i].owner \in H THEN NoSecret
                                         ELSE g_secrets[i]]
      /\ g_sessions' = [h \in Sessions |-> IF h \in H THEN BlankSession ELSE g_sessions[h]]
  BY DEF CloseSessions, secrets_drop_owner, ClosedSession, Restrict
<1>3. ASSUME NEW h \in Sessions, g_sessions[h].in_use, SlotOf(h) # s
      PROVE  /\ g_sessions'[h] = g_sessions[h]
             /\ core'[g_sessions[h].sess] = core[g_sessions[h].sess]
  <2>1. h \notin H
    BY <1>1, <1>3
  <2>2. g_sessions[h].sess \in DOMAIN core /\ g_sessions[h].sess \notin C
    BY <1>1, <1>3, <2>1 DEF PInv, CoreOK
  <2> QED BY <1>2, <2>1, <2>2
<1>4. ASSUME NEW i \in Secrets, g_secrets[i].in_use, SlotOf(g_secrets[i].owner) # s
      PROVE  g_secrets'[i] = g_secrets[i]
  BY <1>1, <1>2, <1>4
<1> QED BY <1>3, <1>4 DEF SparesOthers

\* A session that opens takes an entry nobody uses and a new session of the slot manager.
LEMMA OpenSpares ==
  ASSUME PInv, NEW s \in Slots, C_OpenSession(s)
  PROVE  SparesOthers(s)
<1>1. PICK h \in Sessions :
        ~g_sessions[h].in_use /\ \A j \in Sessions \ {h} : g_sessions'[j] = g_sessions[j]
  BY DEF C_OpenSession, SetSession, PInv, SessionsOK
<1>2. g_secrets' = g_secrets
  BY DEF C_OpenSession
<1>3. \A c \in DOMAIN core : core'[c] = core[c]
  <2>1. \A c \in DOMAIN core : c \in 1..opens /\ opens \in Nat
    BY DEF PInv, CoreOK, CountsOK
  <2>2. \A c \in DOMAIN core : c # opens + 1
    BY <2>1
  <2> QED BY <2>2 DEF C_OpenSession
<1>4. \A j \in Sessions : g_sessions[j].in_use => g_sessions[j].sess \in DOMAIN core
  BY DEF PInv, CoreOK
<1> QED BY <1>1, <1>2, <1>3, <1>4 DEF SparesOthers

\* Any call of an open session.
LEMMA SessionCallSpares ==
  ASSUME PInv, NEW h \in Sessions, SessionCall(h)
  PROVE  \E s \in Slots : SparesOthers(s)
<1>1. SlotOf(h) \in Slots
  BY SlotOfSession
<1>2. CASE C_InitPIN(h) \/ \E alg \in {"sig", "kem"} : C_GenerateKeyPair(h, alg)
  BY <1>1, <1>2, EntrySpares DEF C_InitPIN, C_GenerateKeyPair
<1>3. CASE C_CloseSession(h)
  BY <1>1, <1>3, CloseSpares DEF C_CloseSession, OfSlot, SlotOf, Ready
<1>4. CASE C_Logout(h) \/ \E role \in {"USER", "SO"} : C_Login(h, role)
  BY <1>1, <1>4, RoleSpares
<1>5. CASE C_CreateObject(h)
  <2>1. UNCHANGED <<core, g_sessions>> /\ (NewSecret(h) \/ UNCHANGED g_secrets)
    BY <1>5 DEF C_CreateObject
  <2> QED BY <1>1, <2>1, NewSecretSpares, EntrySpares
<1>6. CASE \/ C_FindObjectsInit(h) \/ C_FindObjects(h) \/ C_FindObjectsFinal(h)
           \/ \E f \in {"sign", "verify"} : Update(h, f)
           \/ C_Sign(h) \/ C_SignFinal(h) \/ C_Verify(h) \/ C_VerifyFinal(h)
           \/ \E f \in {"enc", "dec"} : AeadRun(h, f)
  BY <1>1, <1>6, ProgressSpares
<1>7. ASSUME NEW x \in issued,
             \/ C_DestroyObject(h, x.obj)
             \/ C_SignInit(h, x) \/ C_VerifyInit(h, x)
             \/ C_EncapsulateKey(h, x.obj) \/ C_DecapsulateKey(h, x.obj)
             \/ \E f \in {"enc", "dec"} : aead_init(h, f, x)
      PROVE  \E s \in Slots : SparesOthers(s)
  <2>1. CASE C_DestroyObject(h, x.obj)
    BY <2>1, DestroySpares
  <2>2. CASE C_EncapsulateKey(h, x.obj) \/ C_DecapsulateKey(h, x.obj)
    BY <1>1, <2>2, NewSecretSpares DEF C_EncapsulateKey, C_DecapsulateKey
  <2>3. CASE C_SignInit(h, x) \/ C_VerifyInit(h, x) \/ \E f \in {"enc", "dec"} : aead_init(h, f, x)
    BY <1>1, <2>3, ProgressSpares
  <2> QED BY <1>7, <2>1, <2>2, <2>3
<1> QED BY <1>2, <1>3, <1>4, <1>5, <1>6, <1>7 DEF SessionCall

\* While the library stays up a call changes the sessions, the logins and the session
\* objects of one slot only: C_CloseAllSessions and C_DestroyObject included.
THEOREM CallsTouchOneSlot == Spec => TouchesOneSlot
<1> DEFINE A == g_init' => \E s \in Slots :
         /\ \A h \in Sessions : g_sessions[h].in_use /\ SlotOf(h) # s =>
              /\ g_sessions'[h] = g_sessions[h]
              /\ core'[g_sessions[h].sess] = core[g_sessions[h].sess]
         /\ \A i \in Secrets : g_secrets[i].in_use /\ SlotOf(g_secrets[i].owner) # s =>
              g_secrets'[i] = g_secrets[i]
<1>1. PInv /\ [Next]_vars => [A]_vars
  <2> SUFFICES ASSUME PInv, Next, g_init' PROVE \E s \in Slots : SparesOthers(s)
    BY DEF SparesOthers
  <2>1. CASE C_Initialize
    <3>1. /\ \A h \in Sessions : g_sessions[h] = BlankSession
          /\ \A i \in Secrets : g_secrets[i] = NoSecret
      BY <2>1, DownIsEmpty DEF C_Initialize
    <3>2. 1 \in Slots
      BY Constants DEF Slots
    <3>3. SparesOthers(1)
      BY <3>1 DEF SparesOthers, BlankSession, NoSecret
    <3> QED BY <3>2, <3>3
  <2>2. CASE C_Finalize \/ Crash
    BY <2>2 DEF C_Finalize, Crash, Gone
  <2>3. ASSUME NEW s \in Slots, C_InitToken(s) \/ C_OpenSession(s) \/ C_CloseAllSessions(s)
        PROVE  SparesOthers(s)
    <3>1. CASE C_InitToken(s)
      BY <3>1 DEF C_InitToken, SparesOthers
    <3> QED BY <2>3, <3>1, OpenSpares, CloseSpares DEF C_CloseAllSessions
  <2> QED BY <2>1, <2>2, <2>3, SessionCallSpares DEF Next
<1> QED BY <1>1, PInvHolds, PTL DEF Spec, TouchesOneSlot
-----------------------------------------------------------------------------
(* The token below keeps the contract of the slot manager.                  *)

\* What shows of a slot whose record changes.
LEMMA SlotLife ==
  ASSUME TokenOK(tok), NEW s \in Slots, NEW r, tok' = [tok EXCEPT ![s] = r],
         NEW x, x = LifeOf(tok[s]), NEW y, y = LifeOf(r)
  PROVE  LifeIn(tok') = [LifeIn(tok) EXCEPT ![s] = y] /\ LifeIn(tok)[s] = x
BY DEF LifeIn, TokenOK

\* A save is one step with the call that makes it.
LEMMA PersistLife ==
  ASSUME disk' \in {tok', disk}
  PROVE  KeyLife!Saving
BY DEF KeyLife!Saving, LifeIn

\* A call that changes no slot is a step of the contract that changes none.
LEMMA SameLife ==
  ASSUME PInv, UNCHANGED tok, disk' \in {tok, disk}, nkeys' \in {nkeys, nkeys + 1}
  PROVE  KeyLife!Live
<1>1. KeyLife!Saving
  BY PersistLife
<1>2. nkeys' >= nkeys
  BY DEF PInv, CountsOK
<1>3. LifeIn(tok') = LifeIn(tok)
  OBVIOUS
<1> QED BY <1>1, <1>2, <1>3 DEF KeyLife!Live

\* C_InitToken.
LEMMA InitTokenLife ==
  ASSUME PInv, NEW s \in Slots, C_InitToken(s)
  PROVE  KeyLife!Live
<1> DEFINE r == [tok[s] EXCEPT !.state = "EMPTY"]
<1>1. /\ tok[s].state = "UNINIT" /\ tok' = [tok EXCEPT ![s] = r]
      /\ disk' \in {tok', disk} /\ nkeys' = nkeys /\ TokenOK(tok)
  BY DEF C_InitToken, persist, PInv, TokensOK, TokenOK
<1>2. tok[s] \in SlotRec
  BY <1>1 DEF TokenOK
<1>3. r.state = "EMPTY" /\ r.gen = tok[s].gen /\ r.key = tok[s].key
  BY <1>2 DEF SlotRec
<1> HIDE DEF r
<1>4. KeyLife!Initialise(s)
  <2>1. PICK x, y : x = LifeOf(tok[s]) /\ y = LifeOf(r)
    OBVIOUS
  <2>2. x.state = "UNINIT" /\ y = [x EXCEPT !.state = "EMPTY"]
    BY <1>1, <1>3, <2>1 DEF LifeOf
  <2>3. LifeIn(tok') = [LifeIn(tok) EXCEPT ![s] = y] /\ LifeIn(tok)[s] = x
    BY <1>1, <2>1, SlotLife
  <2> QED BY <2>2, <2>3 DEF KeyLife!Initialise, LifeIn
<1>5. KeyLife!Saving /\ nkeys' >= nkeys
  BY <1>1, PersistLife DEF PInv, CountsOK
<1> QED BY <1>4, <1>5 DEF KeyLife!Live

\* C_InitPIN shows nothing.
LEMMA InitPINLife ==
  ASSUME PInv, NEW h \in Sessions, C_InitPIN(h)
  PROVE  KeyLife!Live
<1> DEFINE s == g_sessions[h].slot
           r == [tok[s] EXCEPT !.user_pin = TRUE]
<1>1. /\ tok' = [tok EXCEPT ![s] = r] /\ disk' \in {tok', disk} /\ nkeys' = nkeys
      /\ TokenOK(tok) /\ s \in Slots
  BY ReadyFacts DEF C_InitPIN, persist, PInv, TokensOK, TokenOK
<1> HIDE DEF s
<1>2. tok[s] \in SlotRec
  BY <1>1 DEF TokenOK
<1>3. r.state = tok[s].state /\ r.gen = tok[s].gen /\ r.key = tok[s].key
  BY <1>2 DEF SlotRec
<1> HIDE DEF r
<1>4. LifeIn(tok') = LifeIn(tok)
  BY <1>1, <1>3 DEF LifeIn, LifeOf, TokenOK
<1>5. KeyLife!Saving /\ nkeys' >= nkeys
  BY <1>1, PersistLife DEF PInv, CountsOK
<1> QED BY <1>4, <1>5 DEF KeyLife!Live

\* C_GenerateKeyPair, and C_CreateObject with a seed.
LEMMA InstallLife ==
  ASSUME PInv, NEW h \in Sessions, Ready(h), NEW alg \in {"sig", "kem"}, InstallKey(h, alg),
         persist(tok')
  PROVE  KeyLife!Live
<1> DEFINE s == g_sessions[h].slot
<1>1. /\ s \in Slots /\ tok'[s].state = "LOADED" /\ tok'[s].key = nkeys + 1
      /\ tok'[s].gen = tok[s].gen /\ nkeys' = nkeys + 1 /\ nkeys \in Nat
  BY InstallFacts
<1>2. TokenOK(tok) /\ tok[s].state = "EMPTY" /\ tok' = [tok EXCEPT ![s] = tok'[s]]
  BY <1>1 DEF InstallKey, PInv, TokensOK, TokenOK
<1>3. disk' \in {tok', disk}
  BY DEF persist
<1> HIDE DEF s
<1>4. PICK r : r = tok'[s]
  OBVIOUS
<1>5. KeyLife!Install(s)
  <2>1. nkeys' \in (nkeys + 1)..nkeys'
    BY <1>1
  <2>2. r.state = "LOADED" /\ r.gen = tok[s].gen /\ r.key = nkeys'
    BY <1>1, <1>4
  <2>3. tok' = [tok EXCEPT ![s] = r]
    BY <1>2, <1>4
  <2>4. PICK x, y : x = LifeOf(tok[s]) /\ y = LifeOf(r)
    OBVIOUS
  <2>5. x.state = "EMPTY" /\ y = [state |-> "LOADED", gen |-> x.gen, key |-> nkeys']
    BY <1>2, <2>2, <2>4 DEF LifeOf
  <2>6. LifeIn(tok') = [LifeIn(tok) EXCEPT ![s] = y] /\ LifeIn(tok)[s] = x
    <3>1. s \in Slots /\ TokenOK(tok)
      BY <1>1, <1>2
    <3> QED BY <2>3, <2>4, <3>1, SlotLife
  <2> QED BY <2>1, <2>5, <2>6 DEF KeyLife!Install
<1>6. KeyLife!Saving /\ nkeys' >= nkeys
  BY <1>1, <1>3, PersistLife
<1> QED BY <1>1, <1>5, <1>6 DEF KeyLife!Live

\* C_DestroyObject: the key and its generation go together, a secret shows nothing.
LEMMA DestroyLife ==
  ASSUME PInv, NEW h \in Sessions, NEW x \in issued, C_DestroyObject(h, x.obj)
  PROVE  KeyLife!Live
<1> DEFINE s == x.obj[2]
           r == [tok[s] EXCEPT !.state = "EMPTY", !.alg = "none", !.key = 0, !.gen = @ + 1]
<1>1. nkeys' = nkeys
  BY DEF C_DestroyObject
<1>2. CASE UNCHANGED <<tok, disk>>
  BY <1>1, <1>2, SameLife
<1>3. CASE Reaches(h, x.obj) /\ tok' = [tok EXCEPT ![s] = r] /\ persist(tok')
  <2>1. x.obj \in Handles
    BY DEF PInv, IssuedOK, NamedOK, Issued
  <2>2. s \in Slots /\ tok[s].state = "LOADED" /\ TokenOK(tok) /\ disk' \in {tok', disk}
    BY <1>3, <2>1, HandleParts DEF Reaches, core_handle_of, PInv, TokensOK, persist
  <2> HIDE DEF s
  <2>3. tok[s] \in SlotRec
    BY <2>2 DEF TokenOK
  <2>4. r.state = "EMPTY" /\ r.gen = tok[s].gen + 1 /\ r.key = 0
    <3>1. r.state = "EMPTY" /\ r.key = 0
      BY <2>3 DEF SlotRec
    <3>2. r.gen = tok[s].gen + 1
      BY <2>3 DEF SlotRec
    <3> QED BY <3>1, <3>2
  <2>5. tok' = [tok EXCEPT ![s] = r]
    BY <1>3
  <2> HIDE DEF r
  <2>6. KeyLife!Lose(s, "EMPTY")
    <3>1. PICK x0, y : x0 = LifeOf(tok[s]) /\ y = LifeOf(r)
      OBVIOUS
    <3>2. x0.state = "LOADED" /\ y = [state |-> "EMPTY", gen |-> x0.gen + 1, key |-> 0]
      BY <2>2, <2>4, <3>1 DEF LifeOf
    <3>3. LifeIn(tok') = [LifeIn(tok) EXCEPT ![s] = y] /\ LifeIn(tok)[s] = x0
      BY <2>2, <2>5, <3>1, SlotLife
    <3> QED BY <3>2, <3>3 DEF KeyLife!Lose
  <2>7. KeyLife!Saving /\ nkeys' >= nkeys
    BY <1>1, <2>2, PersistLife DEF PInv, CountsOK
  <2> QED BY <2>2, <2>6, <2>7 DEF KeyLife!Live
<1> QED BY <1>2, <1>3 DEF C_DestroyObject

\* Any call of an open session.
LEMMA SessionCallLife ==
  ASSUME PInv, NEW h \in Sessions, SessionCall(h)
  PROVE  KeyLife!Live
<1>1. CASE C_InitPIN(h)
  BY <1>1, InitPINLife
<1>2. ASSUME NEW alg \in {"sig", "kem"}, C_GenerateKeyPair(h, alg) PROVE KeyLife!Live
  BY <1>2, InstallLife DEF C_GenerateKeyPair
<1>3. CASE C_CreateObject(h)
  <2>1. ASSUME NEW alg \in {"sig", "kem"}, InstallKey(h, alg), persist(tok')
        PROVE  KeyLife!Live
    BY <1>3, <2>1, InstallLife DEF C_CreateObject
  <2>2. ASSUME NewSecret(h), UNCHANGED <<tok, disk>> PROVE KeyLife!Live
    BY <2>2, SameLife DEF NewSecret
  <2> QED BY <1>3, <2>1, <2>2 DEF C_CreateObject
<1>4. ASSUME NEW x \in issued, C_DestroyObject(h, x.obj) PROVE KeyLife!Live
  BY <1>4, DestroyLife
<1>5. ASSUME NEW x \in issued, C_EncapsulateKey(h, x.obj) \/ C_DecapsulateKey(h, x.obj)
      PROVE  KeyLife!Live
  BY <1>5, SameLife DEF C_EncapsulateKey, C_DecapsulateKey, NewSecret, persist
<1>6. CASE \/ C_CloseSession(h) \/ C_Logout(h)
           \/ \E role \in {"USER", "SO"} : C_Login(h, role)
           \/ C_FindObjectsInit(h) \/ C_FindObjects(h) \/ C_FindObjectsFinal(h)
           \/ \E f \in {"sign", "verify"} : Update(h, f)
           \/ C_Sign(h) \/ C_SignFinal(h) \/ C_Verify(h) \/ C_VerifyFinal(h)
           \/ \E f \in {"enc", "dec"} : AeadRun(h, f)
           \/ \E x \in issued : \/ C_SignInit(h, x) \/ C_VerifyInit(h, x)
                                \/ \E f \in {"enc", "dec"} : aead_init(h, f, x)
  <2>1. UNCHANGED <<tok, nkeys>> /\ disk' \in {tok, disk}
    BY <1>6 DEF C_CloseSession, C_Logout, C_Login, C_FindObjectsInit, C_FindObjects,
                C_FindObjectsFinal, Update, C_Sign, C_SignFinal, C_Verify, C_VerifyFinal,
                AeadRun, C_SignInit, C_VerifyInit, aead_init, persist
  <2> QED BY <2>1, SameLife
<1> QED BY <1>1, <1>2, <1>3, <1>4, <1>5, <1>6 DEF SessionCall

\* The token P11Module takes for granted is one module KeySlots allows, which the slot
\* manager is shown to implement: what is proved of handles above rests on nothing the
\* slot manager does not keep.
THEOREM TokenKeepsContract == Spec => TokenKeepsKeySlots
<1>1. Init => KeyLife!KeyInit
  <2> SUFFICES ASSUME Init PROVE KeyLife!KeyInit
    OBVIOUS
  <2>1. \A s \in Slots : tok[s].state \in {"UNINIT", "EMPTY"} /\ tok[s].gen = 0 /\ tok[s].key = 0
    <3>1. disk \in {[s \in Slots |-> BlankSlot],
                    [s \in Slots |-> [BlankSlot EXCEPT !.state = "EMPTY", !.user_pin = TRUE]]}
          /\ tok = disk
      BY DEF Init
    <3> DEFINE b == [BlankSlot EXCEPT !.state = "EMPTY", !.user_pin = TRUE]
    <3>2. BlankSlot.state = "UNINIT" /\ BlankSlot.gen = 0 /\ BlankSlot.key = 0
      BY DEF BlankSlot
    <3>3. b.state = "EMPTY" /\ b.gen = 0 /\ b.key = 0
      BY DEF BlankSlot
    <3> HIDE DEF b
    <3> QED BY <3>1, <3>2, <3>3 DEF b
  <2>2. tok = disk /\ nkeys = 0
    BY DEF Init
  <2> QED BY <2>1, <2>2 DEF KeyLife!KeyInit, LifeIn, LifeOf
<1>2. PInv /\ [Next]_vars => [KeyLife!KeyNext]_(KeyLife!keyVars)
  <2> SUFFICES ASSUME PInv, [Next]_vars PROVE [KeyLife!KeyNext]_(KeyLife!keyVars)
    OBVIOUS
  <2>1. CASE UNCHANGED vars
    BY <2>1 DEF vars, KeyLife!keyVars, LifeIn
  <2>2. CASE C_Initialize \/ C_Finalize \/ Crash
    <3>1. disk' \in {disk, tok} /\ tok' = disk' /\ nkeys' = nkeys
      BY <2>2 DEF C_Initialize, C_Finalize, Crash, Gone, persist
    <3>2. KeyLife!Restart
      BY <3>1 DEF KeyLife!Restart, LifeIn
    <3> QED BY <3>2 DEF KeyLife!KeyNext
  <2>3. ASSUME NEW s \in Slots, C_InitToken(s) PROVE KeyLife!Live
    BY <2>3, InitTokenLife
  <2>4. ASSUME NEW s \in Slots, C_OpenSession(s) \/ C_CloseAllSessions(s) PROVE KeyLife!Live
    BY <2>4, SameLife DEF C_OpenSession, C_CloseAllSessions
  <2> QED BY <2>1, <2>2, <2>3, <2>4, SessionCallLife DEF Next, KeyLife!KeyNext
<1> QED BY <1>1, <1>2, PInvHolds, PTL DEF Spec, TokenKeepsKeySlots, KeyLife!KeySpec
=============================================================================
