----------------------------- MODULE P11Module -----------------------------
(***************************************************************************)
(* The PKCS#11 front end, src/src/p11/p11_module.c: the session table      *)
(* g_sessions with its operations in progress, the session objects         *)
(* g_secrets, and the object handles it makes of slots and generations.    *)
(*                                                                         *)
(* Every C_ function holds g_lock from its first line to its last, so a    *)
(* call is one action and the calls of several threads interleave whole.   *)
(* A call that an early return ends before it changes anything, a length   *)
(* query or a buffer that is too small among them, is a stuttering step.   *)
(*                                                                         *)
(* The slot manager below is taken at what it promises one caller at a     *)
(* time (module SlotManager); lockout and audit stay with it.  tok is the  *)
(* token in memory, disk what the last save that worked wrote.             *)
(***************************************************************************)
EXTENDS Integers, Sequences, FiniteSets, SequencesExt, Functions

CONSTANTS
  NumSlots,          \* g_n_slots
  MAX_P11_SESSIONS,  \* entries of g_sessions
  MAX_SESSIONS,      \* entries of the slot manager's session table
  MAX_SECRETS,       \* entries of g_secrets
  Gens,              \* P11_GEN_MASK + 1: generations a handle tells apart
  Scenarios,         \* which calls the application makes, with their bounds
  MaxParts           \* bound on the parts of a message

ASSUME ConstantsAssumption ==
  /\ {NumSlots, MAX_P11_SESSIONS, MAX_SESSIONS, MAX_SECRETS, Gens} \subseteq Nat \ {0}
  /\ MaxParts \in Nat

VARIABLES
  app,         \* the scenario: calls made, slots used, and bounds on gens, opens and objects
  g_init,
  tok,         \* the slots in memory
  disk,        \* the key store file
  core,        \* open sessions of the slot manager, by their id
  g_sessions,
  g_secrets,
  issued,      \* history: handles returned, with the key or secret they named
  opens,       \* history: sessions opened in this process life
  alive,       \* history: the secrets made and not destroyed since
  nkeys        \* history: keys and secrets made so far

vars == <<app, g_init, tok, disk, core, g_sessions, g_secrets, issued, opens,
          alive, nkeys>>

Slots    == 1..NumSlots
Sessions == 1..MAX_P11_SESSIONS
Secrets  == 1..MAX_SECRETS
-----------------------------------------------------------------------------
(* Slots, sessions and secrets.                                             *)

BlankSlot == [state |-> "UNINIT", alg |-> "none", gen |-> 0, key |-> 0,
              user_pin |-> FALSE]

\* Operations of a session.  want, parts and cut are history: the key the handle
\* was issued for, the parts given since the last Init, and whether an operation
\* that had parts was replaced or ended in one call, C_Sign or C_Verify.
NoMessage == [active |-> FALSE, key |-> <<>>, want |-> 0, acc |-> <<>>,
              parts |-> <<>>, cut |-> FALSE]

\* An AEAD context; want is history: the secret its Init chose.
NoAead == [active |-> FALSE, key |-> 0, want |-> 0]

BlankSession ==
  [in_use |-> FALSE, sess |-> 0, slot |-> 1, find |-> <<>>, finding |-> FALSE,
   sign |-> NoMessage, verify |-> NoMessage, enc |-> NoAead, dec |-> NoAead]

\* Mutant: the entry is marked free and nothing in it is cleared.
ClosedSession_FlagOnly(x) == [x EXCEPT !.in_use = FALSE]

\* buf_free, aead_ctx_reset and memset of an entry, whatever was in it.
ClosedSession(x) == BlankSession

NoSecret == [in_use |-> FALSE, owner |-> 0, id |-> 0, sess |-> 0]

AllClosed  == [h \in Sessions |-> BlankSession]
NoSecrets  == [i \in Secrets |-> NoSecret]

\* Handles: <<"priv" or "pub", slot, low bits of the generation>>, or
\* <<"secret", entry>>.
p11_handle(kind, s) == <<kind, s, tok[s].gen % Gens>>

IsSecret(o) == o[1] = "secret"

secret_at(i) == i \in Secrets /\ g_secrets[i].in_use

\* Mutant: the generation in the handle is not looked at.
core_handle_of_AnyGen(o) == ~IsSecret(o)

\* Is there a core handle for o: the low bits of the generation agree.  The core
\* handle is then made of the slot's full, current generation.
core_handle_of(o) == ~IsSecret(o) /\ o[3] = tok[o[2]].gen % Gens

Ready(h) == g_init /\ g_sessions[h].in_use

RoleOf(h) == core[g_sessions[h].sess].role

\* What the slot manager's check_handle accepts from session h.
Reaches(h, o) ==
  /\ core_handle_of(o)
  /\ o[2] = g_sessions[h].slot
  /\ tok[o[2]].state = "LOADED"

Offered(call) == call \in app.calls

\* Mutant: generations are not in the file.
persist_NoGeneration(t) == disk' = [s \in Slots |-> [t[s] EXCEPT !.gen = 0]]

\* The result of the save is ignored.
persist(t) == disk' \in {t} \cup (IF Offered("failing save") THEN {disk} ELSE {})

SetSession(h, x) == g_sessions' = [g_sessions EXCEPT ![h] = x]

\* What a handle names when it is returned.
Named(o, k) == [obj |-> o, key |-> k, gen |-> IF IsSecret(o) THEN 0 ELSE tok[o[2]].gen]

Issue(O, k) == issued' = issued \cup {Named(o, k) : o \in O}
-----------------------------------------------------------------------------
(* The library, its token and its sessions.                                 *)

\* A token found in the file: as C_InitToken and C_InitPIN leave it, or blank.
Init ==
  /\ app \in Scenarios
  /\ g_init = FALSE
  /\ disk \in {[s \in Slots |-> BlankSlot],
               [s \in Slots |-> [BlankSlot EXCEPT !.state = "EMPTY", !.user_pin = TRUE]]}
  /\ disk[1].state = "UNINIT" <=> "C_InitToken" \in app.calls
  /\ tok = disk
  /\ core = <<>>
  /\ g_sessions = AllClosed
  /\ g_secrets = NoSecrets
  /\ issued = {}
  /\ opens = 0
  /\ alive = {}
  /\ nkeys = 0

C_Initialize ==
  /\ ~g_init
  /\ g_init' = TRUE
  /\ tok' = disk
  /\ g_sessions' = AllClosed
  /\ UNCHANGED <<app, disk, core, g_secrets, alive, issued, opens, nkeys>>

\* What a process that ends leaves of its memory; handles end with it.
Gone ==
  /\ g_init' = FALSE
  /\ core' = <<>>
  /\ g_sessions' = AllClosed
  /\ g_secrets' = NoSecrets
  /\ alive' = {}
  /\ issued' = {}
  /\ opens' = 0
  /\ UNCHANGED <<app, nkeys>>

C_Finalize ==
  /\ g_init
  /\ persist(tok)
  /\ tok' = disk'
  /\ Gone

\* The process is killed.
Crash ==
  /\ g_init
  /\ Offered("crash")
  /\ tok' = disk
  /\ UNCHANGED disk
  /\ Gone

C_InitToken(s) ==
  /\ g_init /\ Offered("C_InitToken") /\ s <= app.slots
  /\ tok[s].state = "UNINIT"
  /\ tok' = [tok EXCEPT ![s].state = "EMPTY"]
  /\ persist(tok')
  /\ UNCHANGED <<app, g_init, core, g_sessions, g_secrets, alive, issued, opens, nkeys>>

C_InitPIN(h) ==
  LET s == g_sessions[h].slot IN
  /\ Ready(h) /\ Offered("C_InitToken")
  /\ RoleOf(h) = "SO"
  /\ tok' = [tok EXCEPT ![s].user_pin = TRUE]
  /\ persist(tok')
  /\ UNCHANGED <<app, g_init, core, g_sessions, g_secrets, alive, issued, opens, nkeys>>

\* The first free entry, and a session of the slot manager.
C_OpenSession(s) ==
  /\ g_init /\ s <= app.slots
  /\ opens < app.opens
  /\ Cardinality(DOMAIN core) < MAX_SESSIONS
  /\ \E h \in Sessions :
       /\ ~g_sessions[h].in_use
       /\ \A j \in 1..(h - 1) : g_sessions[j].in_use
       /\ SetSession(h, [ClosedSession(g_sessions[h]) EXCEPT
                           !.in_use = TRUE, !.sess = opens + 1, !.slot = s])
  /\ opens' = opens + 1
  /\ core' = [c \in DOMAIN core \cup {opens + 1} |->
                IF c = opens + 1 THEN [slot |-> s, role |-> "PUBLIC"] ELSE core[c]]
  /\ UNCHANGED <<app, g_init, tok, disk, g_secrets, alive, issued, nkeys>>

\* Mutant: the index of the entry is taken for its handle.
secrets_drop_owner_Index(H) ==
  [i \in Secrets |-> IF g_secrets[i].owner + 1 \in H THEN NoSecret ELSE g_secrets[i]]

secrets_drop_owner(H) ==
  [i \in Secrets |-> IF g_secrets[i].owner \in H THEN NoSecret ELSE g_secrets[i]]

\* Mutant: the session of the slot manager stays open.
CloseSessions_KeepsCore(H) ==
  /\ UNCHANGED core
  /\ g_secrets' = secrets_drop_owner(H)
  /\ alive' = {k \in alive : \A i \in Secrets : g_secrets[i].id = k =>
                                                g_secrets[i].owner \notin H}
  /\ g_sessions' = [h \in Sessions |-> IF h \in H THEN ClosedSession(g_sessions[h])
                                       ELSE g_sessions[h]]

CloseSessions(H) ==
  /\ core' = Restrict(core, DOMAIN core \ {g_sessions[h].sess : h \in H})
  /\ g_secrets' = secrets_drop_owner(H)
  /\ alive' = {k \in alive : \A i \in Secrets : g_secrets[i].id = k =>
                                                g_secrets[i].owner \notin H}
  /\ g_sessions' = [h \in Sessions |-> IF h \in H THEN ClosedSession(g_sessions[h])
                                       ELSE g_sessions[h]]

C_CloseSession(h) ==
  /\ Ready(h)
  /\ CloseSessions({h})
  /\ UNCHANGED <<app, g_init, tok, disk, issued, opens, nkeys>>

\* Mutant: every open session, whatever its slot.
OfSlot_All(s) == {h \in Sessions : g_sessions[h].in_use}

OfSlot(s) == {h \in Sessions : g_sessions[h].in_use /\ g_sessions[h].slot = s}

\* Does not look at g_init: after C_Finalize no entry is in use.
C_CloseAllSessions(s) ==
  /\ Offered("C_CloseAllSessions") /\ s <= app.slots
  /\ CloseSessions(OfSlot(s))
  /\ UNCHANGED <<app, g_init, tok, disk, issued, opens, nkeys>>

\* The counters of the slot manager change with every answer and are saved with
\* it; only a right PIN changes what this model keeps.
C_Login(h, role) ==
  LET s == g_sessions[h].slot IN
  /\ Ready(h)
  /\ tok[s].state # "UNINIT"
  /\ role = "USER" => tok[s].user_pin
  /\ role = "SO" => Offered("C_InitToken")
  /\ core' \in {core, [core EXCEPT ![g_sessions[h].sess].role = role]}
  /\ persist(tok)
  /\ UNCHANGED <<app, g_init, tok, g_sessions, g_secrets, alive, issued, opens, nkeys>>

C_Logout(h) ==
  /\ Ready(h)
  /\ core' = [core EXCEPT ![g_sessions[h].sess].role = "PUBLIC"]
  /\ UNCHANGED <<app, g_init, tok, disk, g_sessions, g_secrets, alive, issued, opens, nkeys>>
-----------------------------------------------------------------------------
(* Objects.                                                                 *)

\* hsm_slot_generate and hsm_slot_load_seed.
InstallKey(h, alg) ==
  LET s == g_sessions[h].slot IN
  /\ RoleOf(h) = "USER"
  /\ tok[s].state = "EMPTY"
  /\ nkeys < app.objects
  /\ tok' = [tok EXCEPT ![s] = [tok[s] EXCEPT !.state = "LOADED", !.alg = alg,
                                              !.key = nkeys + 1]]
  /\ nkeys' = nkeys + 1

C_GenerateKeyPair(h, alg) ==
  LET s == g_sessions[h].slot IN
  /\ Ready(h) /\ Offered(alg)
  /\ InstallKey(h, alg)
  /\ persist(tok')
  /\ Issue({p11_handle("priv", s), p11_handle("pub", s)}, nkeys + 1)
  /\ UNCHANGED <<app, g_init, core, g_sessions, g_secrets, alive, opens>>

\* Mutant: the first entry, free or not.
secret_alloc_First(i) == i = 1

\* The first free entry of g_secrets.
secret_alloc(i) == /\ ~g_secrets[i].in_use
                   /\ \A j \in 1..(i - 1) : g_secrets[j].in_use

NewSecret(h) ==
  /\ nkeys < app.objects
  /\ \E i \in Secrets :
       /\ secret_alloc(i)
       /\ g_secrets' = [g_secrets EXCEPT ![i] =
            [in_use |-> TRUE, owner |-> h, id |-> nkeys + 1,
             sess |-> g_sessions[h].sess]]
       /\ Issue({<<"secret", i>>}, nkeys + 1)
  /\ alive' = alive \cup {nkeys + 1}
  /\ nkeys' = nkeys + 1

\* A secret key from a template, or a private key from its seed.
C_CreateObject(h) ==
  /\ Ready(h)
  /\ \/ /\ Offered("secret")
        /\ NewSecret(h)
        /\ UNCHANGED <<tok, disk>>
     \/ /\ Offered("seed")
        /\ \E alg \in {"sig", "kem"} \cap app.calls : InstallKey(h, alg)
        /\ persist(tok')
        /\ Issue({p11_handle("priv", g_sessions[h].slot)}, nkeys + 1)
        /\ UNCHANGED <<g_secrets, alive>>
  /\ UNCHANGED <<app, g_init, core, g_sessions, opens>>

\* C_EncapsulateKey needs the public key only; C_DecapsulateKey uses the private
\* key in a logged-in session.  The shared secret becomes a session object.
C_EncapsulateKey(h, o) ==
  /\ Ready(h)
  /\ o[1] = "pub" /\ tok[o[2]].alg = "kem"
  /\ Reaches(h, o)
  /\ NewSecret(h)
  /\ UNCHANGED <<app, g_init, tok, disk, core, g_sessions, opens>>

C_DecapsulateKey(h, o) ==
  /\ Ready(h)
  /\ o[1] = "priv" /\ tok[o[2]].alg = "kem"
  /\ RoleOf(h) = "USER"
  /\ Reaches(h, o)
  /\ NewSecret(h)
  /\ persist(tok)
  /\ UNCHANGED <<app, g_init, tok, core, g_sessions, opens>>

\* Either handle of a pair destroys the pair.  A secret is destroyed by any
\* session, its owner or not.
C_DestroyObject(h, o) ==
  /\ Ready(h)
  /\ \/ /\ IsSecret(o) /\ secret_at(o[2])
        /\ g_secrets' = [g_secrets EXCEPT ![o[2]] = NoSecret]
        /\ alive' = alive \ {g_secrets[o[2]].id}
        /\ UNCHANGED <<tok, disk>>
     \/ /\ Reaches(h, o)
        /\ RoleOf(h) = "USER"
        /\ tok[o[2]].gen < app.gens
        /\ tok' = [tok EXCEPT ![o[2]] = [tok[o[2]] EXCEPT
                     !.state = "EMPTY", !.alg = "none", !.key = 0, !.gen = @ + 1]]
        /\ persist(tok')
        /\ UNCHANGED <<g_secrets, alive>>
  /\ UNCHANGED <<app, g_init, core, g_sessions, issued, opens, nkeys>>

\* The handles are picked when the search begins and handed out later.
C_FindObjectsInit(h) ==
  LET s == g_sessions[h].slot IN
  /\ Ready(h) /\ Offered("find")
  /\ ~g_sessions[h].finding
  /\ \E kinds \in {<<"pub", "priv">>, <<"pub">>, <<"priv">>} :
       SetSession(h, [g_sessions[h] EXCEPT
         !.finding = TRUE,
         !.find = IF tok[s].state # "LOADED" THEN <<>>
                  ELSE [i \in DOMAIN kinds |-> Named(p11_handle(kinds[i], s),
                                                     tok[s].key)]])
  /\ UNCHANGED <<app, g_init, tok, disk, core, g_secrets, alive, issued, opens, nkeys>>

C_FindObjects(h) ==
  LET x == g_sessions[h] IN
  /\ Ready(h)
  /\ x.finding
  /\ \E n \in 1..Len(x.find) :
       /\ issued' = issued \cup Range(SubSeq(x.find, 1, n))
       /\ SetSession(h, [x EXCEPT !.find = SubSeq(@, n + 1, Len(@))])
  /\ UNCHANGED <<app, g_init, tok, disk, core, g_secrets, alive, opens, nkeys>>

C_FindObjectsFinal(h) ==
  /\ Ready(h) /\ Offered("find")
  /\ SetSession(h, [g_sessions[h] EXCEPT !.finding = FALSE, !.find = <<>>])
  /\ UNCHANGED <<app, g_init, tok, disk, core, g_secrets, alive, issued, opens, nkeys>>
-----------------------------------------------------------------------------
(* Signing and verifying, in one call or in parts.  f is "sign" or "verify". *)

\* The Init calls replace whatever was active and leave the buffer alone.
MessageInit(h, f, x) ==
  LET old == g_sessions[h][f] IN
  SetSession(h, [g_sessions[h] EXCEPT ![f] =
    [old EXCEPT !.active = TRUE, !.key = x.obj, !.want = x.key, !.parts = <<>>,
                !.cut = @ \/ (old.active /\ old.acc # <<>>)]])

\* A message given in one call: the operation ends, the buffer is left alone.
EndOneCall(h, f) ==
  LET old == g_sessions[h][f] IN
  SetSession(h, [g_sessions[h] EXCEPT ![f] =
    [old EXCEPT !.active = FALSE, !.key = <<>>, !.want = 0, !.parts = <<>>,
                !.cut = @ \/ old.acc # <<>>]])

\* Mutant: the flag is cleared, the buffer is not freed.
EndParts_KeepsBuffer(h, f) ==
  SetSession(h, [g_sessions[h] EXCEPT ![f] =
    [NoMessage EXCEPT !.acc = g_sessions[h][f].acc]])

\* buf_free, and the operation ends.
EndParts(h, f) == SetSession(h, [g_sessions[h] EXCEPT ![f] = NoMessage])

C_SignInit(h, x) ==
  /\ Ready(h) /\ Offered("sign")
  /\ x.obj[1] # "pub"
  /\ MessageInit(h, "sign", x)
  /\ UNCHANGED <<app, g_init, tok, disk, core, g_secrets, alive, issued, opens, nkeys>>

C_VerifyInit(h, x) ==
  /\ Ready(h) /\ Offered("verify")
  /\ MessageInit(h, "verify", x)
  /\ UNCHANGED <<app, g_init, tok, disk, core, g_secrets, alive, issued, opens, nkeys>>

\* C_SignUpdate and C_VerifyUpdate.  A buffer that cannot grow ends the operation.
Update(h, f) ==
  LET x == g_sessions[h] IN
  /\ Ready(h)
  /\ x[f].active
  /\ Len(x[f].acc) < MaxParts
  /\ \/ SetSession(h, [x EXCEPT ![f] = [x[f] EXCEPT !.acc = Append(@, x.sess),
                                                    !.parts = Append(@, x.sess)]])
     \/ EndParts(h, f)
  /\ UNCHANGED <<app, g_init, tok, disk, core, g_secrets, alive, issued, opens, nkeys>>

\* Does the slot the handle's index names hold a signature key at all.
SigSlot(o) == tok[IF o[2] \in Slots THEN o[2] ELSE 1].alg = "sig"

Signs(h) ==
  LET o == g_sessions[h].sign.key IN
  SigSlot(o) /\ RoleOf(h) = "USER" /\ Reaches(h, o)

\* A C_Sign that fails changes nothing: the operation stays active.
C_Sign(h) ==
  /\ Ready(h)
  /\ g_sessions[h].sign.active /\ Signs(h)
  /\ EndOneCall(h, "sign")
  /\ persist(tok)
  /\ UNCHANGED <<app, g_init, tok, core, g_secrets, alive, issued, opens, nkeys>>

\* C_SignFinal ends the operation whether or not the slot manager signs.
C_SignFinal(h) ==
  /\ Ready(h)
  /\ g_sessions[h].sign.active /\ SigSlot(g_sessions[h].sign.key)
  /\ EndParts(h, "sign")
  /\ IF Signs(h) THEN persist(tok) ELSE UNCHANGED disk
  /\ UNCHANGED <<app, g_init, tok, core, g_secrets, alive, issued, opens, nkeys>>

C_Verify(h) ==
  /\ Ready(h)
  /\ g_sessions[h].verify.active
  /\ EndOneCall(h, "verify")
  /\ UNCHANGED <<app, g_init, tok, disk, core, g_secrets, alive, issued, opens, nkeys>>

C_VerifyFinal(h) ==
  /\ Ready(h)
  /\ g_sessions[h].verify.active
  /\ EndParts(h, "verify")
  /\ UNCHANGED <<app, g_init, tok, disk, core, g_secrets, alive, issued, opens, nkeys>>
-----------------------------------------------------------------------------
(* AES-GCM with a session object, in one call.  f is "enc" or "dec".        *)

aead_init(h, f, x) ==
  /\ Ready(h) /\ Offered(f)
  /\ ~g_sessions[h][f].active
  /\ IsSecret(x.obj) /\ secret_at(x.obj[2])
  /\ SetSession(h, [g_sessions[h] EXCEPT ![f] =
       [active |-> TRUE, key |-> x.obj[2], want |-> g_secrets[x.obj[2]].id]])
  /\ UNCHANGED <<app, g_init, tok, disk, core, g_secrets, alive, issued, opens, nkeys>>

\* C_Encrypt and C_Decrypt look the key up again.  One whose entry is free is
\* refused and the operation stays active; C_Decrypt ends it whether or not the
\* tag is right.
AeadRun(h, f) ==
  /\ Ready(h)
  /\ g_sessions[h][f].active
  /\ secret_at(g_sessions[h][f].key)
  /\ SetSession(h, [g_sessions[h] EXCEPT ![f] = NoAead])
  /\ UNCHANGED <<app, g_init, tok, disk, core, g_secrets, alive, issued, opens, nkeys>>
-----------------------------------------------------------------------------
SessionCall(h) ==
  \/ C_InitPIN(h) \/ C_CloseSession(h) \/ C_Logout(h)
  \/ \E role \in {"USER", "SO"} : C_Login(h, role)
  \/ \E alg \in {"sig", "kem"} : C_GenerateKeyPair(h, alg)
  \/ C_CreateObject(h)
  \/ C_FindObjectsInit(h) \/ C_FindObjects(h) \/ C_FindObjectsFinal(h)
  \/ \E f \in {"sign", "verify"} : Update(h, f)
  \/ C_Sign(h) \/ C_SignFinal(h) \/ C_Verify(h) \/ C_VerifyFinal(h)
  \/ \E f \in {"enc", "dec"} : AeadRun(h, f)
  \/ \E x \in issued :
       \/ C_DestroyObject(h, x.obj)
       \/ C_SignInit(h, x) \/ C_VerifyInit(h, x)
       \/ C_EncapsulateKey(h, x.obj) \/ C_DecapsulateKey(h, x.obj)
       \/ \E f \in {"enc", "dec"} : aead_init(h, f, x)

Next ==
  \/ C_Initialize \/ C_Finalize \/ Crash
  \/ \E s \in Slots : C_InitToken(s) \/ C_OpenSession(s) \/ C_CloseAllSessions(s)
  \/ \E h \in Sessions : SessionCall(h)

Spec == Init /\ [][Next]_vars
-----------------------------------------------------------------------------
(* Properties.                                                              *)

Handles == ({"priv", "pub"} \X Slots \X (0..(Gens - 1))) \cup ({"secret"} \X Secrets)

Message == [active : BOOLEAN, key : Handles \cup {<<>>}, want : Nat, acc : Seq(Nat),
            parts : Seq(Nat), cut : BOOLEAN]
Aead    == [active : BOOLEAN, key : 0..MAX_SECRETS, want : Nat]
Issued  == [obj : Handles, key : Nat, gen : Nat]

\* Types of all the state; a slot has a key exactly when it is LOADED.
TypeOK ==
  /\ g_init \in BOOLEAN
  /\ \A t \in {tok, disk} :
       /\ t \in [Slots -> [state : {"UNINIT", "EMPTY", "LOADED"}, gen : Nat, key : Nat,
                           alg : {"none", "sig", "kem"}, user_pin : BOOLEAN]]
       /\ \A s \in Slots : t[s].key # 0 <=> t[s].state = "LOADED"
  /\ \A c \in DOMAIN core :
       c <= opens /\ core[c] \in [slot : Slots, role : {"PUBLIC", "USER", "SO"}]
  /\ g_sessions \in [Sessions ->
       [in_use : BOOLEAN, sess : Nat, slot : Slots, find : Seq(Issued),
        finding : BOOLEAN, sign : Message, verify : Message, enc : Aead, dec : Aead]]
  /\ g_secrets \in [Secrets -> [in_use : BOOLEAN, owner : 0..MAX_P11_SESSIONS,
                                id : Nat, sess : Nat]]
  /\ issued \subseteq Issued
  /\ opens \in Nat /\ nkeys \in Nat /\ alive \subseteq 1..nkeys

\* A handle the application kept reaches the key it was returned for, or no key,
\* unless the slot has gone through a multiple of 2^18 (Gens) generations since:
\* core_handle_of completes the truncated generation from the slot itself, so the
\* slot manager's full comparison cannot tell.  Whatever session asks.
HandleReachesItsKey ==
  \A x \in issued :
    core_handle_of(x.obj) /\ tok[x.obj[2]].state = "LOADED" =>
      \/ tok[x.obj[2]].key = x.key
      \/ tok[x.obj[2]].gen > x.gen /\ (tok[x.obj[2]].gen - x.gen) % Gens = 0

\* What C_SignFinal and C_VerifyFinal will take for the message is the parts given
\* since the Init, as long as no operation with parts was replaced by another Init
\* or ended by C_Sign or C_Verify before.
PartsUnlessCut ==
  g_init => \A h \in Sessions, f \in {"sign", "verify"} :
    LET m == g_sessions[h][f] IN m.active /\ ~m.cut => m.acc = m.parts

\* The same, without the exception: multi-part operations sign and verify the
\* concatenation of the parts of that operation.
SignsItsParts ==
  \A h \in Sessions, f \in {"sign", "verify"} :
    LET m == g_sessions[h][f] IN m.active => m.acc = m.parts

\* Nothing outlives its session: the next session in a table entry finds no part of
\* a message, no operation in progress and no search of the one before it, and a
\* session object's owner is the open session that made it, not a later one under
\* the same handle.
NothingOutlivesItsSession ==
  /\ \A h \in Sessions :
       LET x == g_sessions[h] IN
       /\ x.in_use => \A f \in {"sign", "verify"} : Range(x[f].acc) \subseteq {x.sess}
       /\ ~x.in_use => x = BlankSession
  /\ \A i \in Secrets : g_secrets[i].in_use =>
       LET x == g_sessions[g_secrets[i].owner] IN x.in_use /\ x.sess = g_secrets[i].sess

\* C_Encrypt and C_Decrypt use the secret their Init chose: as long as nobody
\* destroyed that object and its owner is open, its entry is not given to another.
\* After that it may be, and the operation then runs with the other key.
AeadUsesChosenKey ==
  \A h \in Sessions, f \in {"enc", "dec"} :
    LET c == g_sessions[h][f] IN
    c.active /\ c.want \in alive => g_secrets[c.key].id = c.want

\* The sessions of the slot manager are those of the open entries, one each and on
\* the same slot, so its table, the smaller one (16 entries for 32), never fills up
\* with sessions nobody can close; when the library is not initialised there are none.
CoreSessionsOwned ==
  LET Open == {h \in Sessions : g_sessions[h].in_use} IN
  /\ DOMAIN core = {g_sessions[h].sess : h \in Open}
  /\ Cardinality(DOMAIN core) = Cardinality(Open)
  /\ \A h \in Open : core[g_sessions[h].sess].slot = g_sessions[h].slot
  /\ ~g_init => Open = {}

\* While the library stays up, one call changes the sessions and the session
\* objects of one slot only: closing all the sessions of a slot leaves the others'
\* logins, operations and secrets as they were.
SlotOf(h) == g_sessions[h].slot

TouchesOneSlot ==
  [][g_init' => \E s \in Slots :
       /\ \A h \in Sessions : g_sessions[h].in_use /\ SlotOf(h) # s =>
            /\ g_sessions'[h] = g_sessions[h]
            /\ core'[g_sessions[h].sess] = core[g_sessions[h].sess]
       /\ \A i \in Secrets : g_secrets[i].in_use /\ SlotOf(g_secrets[i].owner) # s =>
            g_secrets'[i] = g_secrets[i]]_vars

\* The token as this module takes it for granted keeps the contract that module
\* SlotManager is shown to keep, with saves that are one step with the call that
\* makes them: numbers given to session objects are skipped as key numbers.
LifeOf(r) == [state |-> r.state, gen |-> r.gen, key |-> r.key]

LifeIn(t) == [s \in Slots |-> LifeOf(t[s])]

KeyLife == INSTANCE KeySlots WITH slots <- LifeIn(tok), stored <- LifeIn(disk),
                                  going <- LifeIn(disk), made <- nkeys

TokenKeepsKeySlots == KeyLife!KeySpec
=============================================================================
