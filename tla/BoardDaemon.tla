---------------------------- MODULE BoardDaemon ----------------------------
(***************************************************************************)
(* The board: the service daemon (service/pqchsm_fpgad.c), the trusted     *)
(* application it asks for seeds and keys (tee/ta/pqchsm_ta.c), the two    *)
(* lattice cores behind their bus slaves (mlkem_axi.v, mldsa_axi.v) and    *)
(* the symmetric key vault.                                                *)
(*                                                                         *)
(* The daemon is one thread serving one connection at a time; its steps    *)
(* are its register accesses.  Cores finish and wipe on their own, and     *)
(* other processes may open the same application, whose commands are       *)
(* executed one at a time but whose words reach the staging port of a core *)
(* between two accesses of the daemon.  A write that a slave refuses comes *)
(* back as an SError in EL3 and hangs the board.                           *)
(*                                                                         *)
(* A seed is a number.  The staging port holds the words it was given, a   *)
(* word being the seed it is part of, so that a mixed seed is visible.     *)
(***************************************************************************)
EXTENDS Naturals, Sequences, FiniteSets

CONSTANTS
  NKeys,      \* entries of each handle table (MAX_KEYS, MLDSA_KEY_SLOTS)
  Words,      \* words of a seed (16 for ML-KEM, 8 for ML-DSA)
  SymSlots,   \* product slots of the key vault
  MaxSeeds,   \* bound: seeds and keys the application ever generates
  Scenarios   \* environments; a behaviour has one of them

\* The runs of a core, and those that take a staged seed.
CoreOps == {"keygen", "use", "pub"}
SeedOps == {"keygen", "use"}

\* What a client may ask for.
Requestable ==
  {"keygen", "use", "pub", "export", "import", "symgen", "symload", "symuse", "other"}

(* An environment: asks, the requests clients send (an operation and its core);   *)
(* others, what other users of the application do; late, the cores whose run may  *)
(* outlast the daemon's patience; faults, the bound on outages and kills.         *)
ASSUME BoardAssumption ==
  /\ NKeys \in Nat \ {0} /\ Words \in Nat \ {0} /\ MaxSeeds \in Nat
  /\ \A e \in Scenarios : /\ e.others \subseteq {"seed", "kek", "sym"} /\ e.faults \in Nat
                         /\ e.late \subseteq {"mlkem", "mldsa"}
                         /\ e.asks \subseteq Requestable \X {"mlkem", "mldsa"}

Cores == {"mlkem", "mldsa"}
Handles == 0 .. NKeys - 1

NoBlob == [kek |-> "none", kind |-> "none", seed |-> 0]
\* A blob no key of this application ever sealed (altered, or of another device).
Forged == [kek |-> "foreign", kind |-> "mlkem", seed |-> 0]
NoOut == [op |-> "none", key |-> <<>>, mine |-> FALSE, sure |-> FALSE]
NoResp == [st |-> "none", out |-> NoOut]
NoKey == [seed |-> 0, by |-> "none"]
NoReq == [op |-> "none", c |-> "mlkem", h |-> 0, blob |-> NoBlob]
NoKeys == [c \in Cores |-> [h \in Handles |-> [used |-> FALSE, blob |-> NoBlob]]]
IdleTa == [who |-> "none", cmd |-> "none", tgt |-> "mlkem", seed |-> 0, n |-> 0, res |-> "none"]
ResetCore == [busy |-> FALSE, job |-> NoOut, out |-> NoOut, staged |-> <<>>,
              refused |-> FALSE, wiping |-> FALSE, expWiping |-> FALSE]

VARIABLES
  core,     \* the two bus slaves and their engines
  vault,    \* key_vault: slot -> key, and who put it there: "daemon" for this connection,
            \* "before" for an earlier one, "other" users of the application
  ta,       \* the command the application is executing
  kek,      \* salt of the key encryption key in the application (g_kek)
  hw,       \* the hardware answers
  hung,     \* who hung the board with a refused write
  pc,       \* where the daemon is
  req,      \* the request being served
  resp,     \* its answer
  fault,    \* hw_fault
  keys,     \* keys[], dsa_keys[]
  held,     \* blobs in the hands of the applications
  env,      \* the environment of this behaviour
  late,     \* cores running for nobody: the daemon gave up or was killed (history)
  unwiped,  \* the last ZEROIZE of the vault was lost or never sent (history)
  nseed, outages, kills    \* counters for the bounds

boardVars == <<core, vault, ta, kek, hw, hung>>
daemonVars == <<pc, req, resp, fault, keys>>
countVars == <<nseed, outages, kills>>
leftVars == <<late, unwiped>>
vars == <<boardVars, daemonVars, held, env, leftVars, countVars>>

Init ==
  /\ core = [c \in Cores |-> ResetCore]
  /\ vault = [s \in SymSlots |-> NoKey]
  /\ ta = IdleTa /\ kek = "none"
  /\ hw = TRUE /\ hung = "no"
  /\ pc = "boot" /\ req = NoReq /\ resp = NoResp
  /\ fault = FALSE
  /\ keys = NoKeys
  /\ held = {} /\ late = {} /\ unwiped = FALSE /\ env \in Scenarios
  /\ nseed = 0 /\ outages = 0 /\ kills = 0

-----------------------------------------------------------------------------
(* The hardware.                                                           *)

\* The last state of a run: the result appears, the expansion area is wiped.
CoreFinish(c) ==
  /\ hung = "no" /\ core[c].busy
  /\ core' = [core EXCEPT ![c].busy = FALSE, ![c].out = core[c].job, ![c].job = NoOut,
                          ![c].expWiping = TRUE]
  /\ UNCHANGED <<vault, ta, kek, hw, hung, daemonVars, held, env, leftVars, countVars>>

\* The wipe of the expansion area, or the wipe ZEROIZE started, comes to its end.
CoreWiped(c) ==
  /\ hung = "no"
  /\ \/ core[c].wiping /\ core' = [core EXCEPT ![c].wiping = FALSE]
     \/ core[c].expWiping /\ core' = [core EXCEPT ![c].expWiping = FALSE]
  /\ UNCHANGED <<vault, ta, kek, hw, hung, daemonVars, held, env, leftVars, countVars>>

\* A write the slave of core c answers with an error: nothing catches it in EL3.
Hang(who) ==
  /\ hung' = who
  /\ UNCHANGED <<core, vault, ta, kek, hw, daemonVars, held, env, leftVars, countVars>>

\* The secure monitor stops answering, for one access or for many ...
Outage ==
  /\ hung = "no" /\ hw /\ outages + kills < env.faults
  /\ hw' = FALSE /\ outages' = outages + 1
  /\ UNCHANGED <<core, vault, ta, kek, hung, daemonVars, held, env, leftVars, nseed, kills>>

\* ... until it answers again, with everything behind it as it was ...
Recover ==
  /\ hung = "no" /\ ~hw
  /\ hw' = TRUE
  /\ UNCHANGED <<core, vault, ta, kek, hung, daemonVars, held, env, leftVars, countVars>>

\* ... or until the bitstream is loaded again, which resets every register behind it.  It
\* takes far longer than the time between two accesses of the application or of the
\* daemon, so a push or a request under way has met a failed access by then.
Reload ==
  /\ hung = "no" /\ ~hw
  /\ ta.res # "push"
  /\ fault \/ pc \in {"boot", "exit", "accept", "recv", "ta"}
  /\ hw' = TRUE
  /\ core' = [c \in Cores |-> ResetCore]
  /\ vault' = [s \in SymSlots |-> NoKey]
  /\ late' = {} /\ unwiped' = FALSE
  /\ UNCHANGED <<ta, kek, hung, daemonVars, held, env, countVars>>

-----------------------------------------------------------------------------
(* The trusted application: one command at a time, whoever sent it.        *)

\* Entry: a key is generated (the noise source may fail, and fails when the bound is
\* reached), or a blob is opened with the present KEK; a blob of another kind fails on
\* its length or on its associated data.  The seed of a self test is number 0.
TaCall(who, cmd, tgt, blob) ==
  LET kind == IF cmd = "SEED_REPLAY" THEN tgt ELSE "sym"
      Run(seed, res) == ta' = [who |-> who, cmd |-> cmd, tgt |-> tgt, seed |-> seed, n |-> 0,
                               res |-> res]
  IN  /\ ta.who = "none"
      /\ CASE cmd \in {"SEED_NEW", "SYMKEY_NEW"} ->
                \/ kek # "none" /\ nseed < MaxSeeds /\ nseed' = nseed + 1 /\ Run(nseed + 1, "push")
                \/ who = "daemon" /\ UNCHANGED nseed /\ Run(0, "dry")
           [] cmd = "SEED_TO_PL" -> UNCHANGED nseed /\ \E r \in {"push", "dry"} : Run(0, r)
           [] OTHER ->
                /\ UNCHANGED nseed
                /\ Run(blob.seed, IF blob.kek = kek /\ blob.kind = kind THEN "push" ELSE "fail")

\* EL3 looks at the word count before it writes.
Full(c) == Len(core[c].staged) >= Words

\* Mutant: the refusal of a word is not looked at.
WordRefused_Ignored == ta' = [ta EXCEPT !.res = "ok"]
WordRefused == ta' = [ta EXCEPT !.res = "fail"]

\* seed_push: one word through EL3, which refuses a full staging port.  EL3 does
\* not look at WIPING, so a word may be the refused write.
TaSeedWord ==
  /\ hung = "no" /\ ta.res = "push" /\ ta.cmd \in {"SEED_NEW", "SEED_TO_PL", "SEED_REPLAY"}
  /\ LET c == ta.tgt IN
     \/ /\ ~hw \/ Full(c)
        /\ WordRefused
        /\ UNCHANGED <<core, vault, kek, hw, hung, daemonVars, held, env, leftVars, countVars>>
     \/ /\ hw /\ ~Full(c) /\ ~core[c].wiping
        /\ core' = [core EXCEPT ![c].staged = Append(@, ta.seed)]
        /\ ta' = [ta EXCEPT !.n = @ + 1, !.res = IF ta.n + 1 = Words THEN "ok" ELSE "push"]
        /\ UNCHANGED <<vault, kek, hw, hung, daemonVars, held, env, leftVars, countVars>>
     \/ hw /\ ~Full(c) /\ core[c].wiping /\ Hang("ta")

\* sym_push: BEGIN takes the slot's old key away, COMMIT puts the new one in; ERASE when
\* one of them or a word between them fails leaves the slot as BEGIN left it.
TaSymPush ==
  /\ hung = "no" /\ ta.res = "push" /\ ta.cmd \in {"SYMKEY_NEW", "SYMKEY_LOAD"}
  /\ \/ ~hw /\ ta' = [ta EXCEPT !.res = "fail"] /\ UNCHANGED vault
     \/ /\ hw /\ ta.n = 0
        /\ ta' = [ta EXCEPT !.n = 1]
        /\ vault' = [vault EXCEPT ![ta.tgt] = NoKey]
     \/ /\ hw /\ ta.n # 0
        /\ ta' = [ta EXCEPT !.res = "ok"]
        /\ vault' = [vault EXCEPT ![ta.tgt] = [seed |-> ta.seed, by |-> ta.who]]
  /\ UNCHANGED <<core, kek, hw, hung, daemonVars, held, env, leftVars, countVars>>

\* Another process uses the application: a seed nobody will start a run with, a key of
\* its own or an application's blob in a slot of the vault, or a KEK of its own.
OtherClient ==
  /\ hung = "no"
  /\ \/ /\ "seed" \in env.others /\ \E c \in {w[2] : w \in env.asks} : TaCall("other", "SEED_NEW", c, NoBlob)
        /\ UNCHANGED kek
     \/ /\ "sym" \in env.others
        /\ \E s \in SymSlots : \/ TaCall("other", "SYMKEY_NEW", s, NoBlob)
                              \/ \E b \in held \cup {Forged} : TaCall("other", "SYMKEY_LOAD", s, b)
        /\ UNCHANGED kek
     \/ /\ "kek" \in env.others /\ ta.who = "none" /\ kek # "other" /\ kek' = "other"
        /\ UNCHANGED <<ta, nseed>>
  /\ UNCHANGED <<core, vault, hw, hung, daemonVars, held, env, leftVars, outages, kills>>

OtherDone ==
  /\ hung = "no" /\ ta.who = "other" /\ ta.res # "push"
  /\ ta' = IdleTa
  /\ UNCHANGED <<core, vault, kek, hw, hung, daemonVars, held, env, leftVars, countVars>>

-----------------------------------------------------------------------------
(* The daemon.  A step that finds the hardware silent sets hw_fault.       *)

Alive == hung = "no"
Goto(l) == pc' = l
\* Return from handle_op; the request loop turns an OK built on failed accesses
\* into HARDFAIL before it is sent.
Return(st, out) ==
  /\ resp' = [st |-> IF st = "OK" /\ fault' THEN "HARDFAIL" ELSE st, out |-> out]
  /\ Goto("reply")
Fail == Return("HARDFAIL", NoOut)

\* A wait by reading: a fault, now or earlier in the request, ends it, and a bit that
\* stays up is given up.
Wait(bits, next, giveUp) ==
  /\ fault' = (fault \/ ~hw)
  /\ IF fault' \/ bits THEN giveUp ELSE next
KeepResp == UNCHANGED resp

\* main() up to the listen: the KEK is set, a seed is sent all the way as a self
\* test and dropped again; a failure ends the process.
BootKek ==
  /\ Alive /\ pc = "boot" /\ ta.who = "none" /\ hw
  /\ kek' = "fixed" /\ Goto("bootSeed")
  /\ UNCHANGED <<core, vault, ta, hw, hung, req, resp, fault, keys, held, env, leftVars, countVars>>

BootSeed ==
  /\ Alive /\ pc = "bootSeed"
  /\ TaCall("daemon", "SEED_TO_PL", "mlkem", NoBlob) /\ Goto("bootTa")
  /\ UNCHANGED <<core, vault, kek, hw, hung, req, resp, fault, keys, held, env, leftVars, outages, kills>>

BootTested ==
  /\ Alive /\ pc = "bootTa" /\ ta.who = "daemon" /\ ta.res # "push"
  /\ ta' = IdleTa
  /\ resp' = IF ta.res = "ok" THEN NoResp ELSE [NoResp EXCEPT !.st = ta.res]
  /\ Goto(IF ta.res = "ok" THEN "bootClr" ELSE "exit")
  /\ UNCHANGED <<core, vault, kek, hw, hung, req, fault, keys, held, env, leftVars, countVars>>

\* hw_wr, not wr, and no wait before it.
BootClr ==
  /\ Alive /\ pc = "bootClr"
  /\ \/ hw /\ core["mlkem"].wiping /\ Hang("daemon")
     \/ /\ hw => ~core["mlkem"].wiping
        /\ core' = IF hw THEN [core EXCEPT !["mlkem"].staged = <<>>] ELSE core
        /\ Goto("accept")
        /\ UNCHANGED <<vault, ta, kek, hw, hung, req, resp, fault, keys, held, env, leftVars, countVars>>

\* A connection begins; a key the last one loaded is not its own.
Accept ==
  /\ Alive /\ pc = "accept"
  /\ Goto("recv")
  /\ vault' = [s \in SymSlots |-> [vault[s] EXCEPT !.by = IF @ = "daemon" THEN "before" ELSE @]]
  /\ UNCHANGED <<core, ta, kek, hw, hung, req, resp, fault, keys, held, env, leftVars, countVars>>

\* What the clients may send next.
Request(w) ==
  LET q == [NoReq EXCEPT !.op = w[1], !.c = w[2]] IN
  \/ w[1] \in {"keygen", "pub", "other"} /\ req' = q
  \/ w[1] \in {"use", "export"} /\ \E h \in Handles : req' = [q EXCEPT !.h = h]
  \/ w[1] = "import" /\ \E b \in held \cup {Forged} : req' = [q EXCEPT !.blob = b]
  \/ w[1] \in {"symgen", "symuse"} /\ \E s \in SymSlots : req' = [q EXCEPT !.h = s]
  \/ /\ w[1] = "symload"
     /\ \E s \in SymSlots, b \in held \cup {Forged} : req' = [q EXCEPT !.h = s, !.blob = b]

\* A result that belongs to an earlier request.
Stale(r) == [r EXCEPT !.key = <<>>, !.mine = FALSE]

\* A request is read; what the cores hold from here on belongs to earlier ones.
Receive ==
  /\ Alive /\ pc = "recv"
  /\ \E w \in env.asks : Request(w)
  /\ fault' = FALSE /\ Goto("check")
  /\ core' = [c \in Cores |-> [core[c] EXCEPT !.job = Stale(@), !.out = Stale(@)]]
  /\ UNCHANGED <<vault, ta, kek, hw, hung, resp, keys, held, env, leftVars, countVars>>

\* The end of the connection, or a frame with a wrong magic or length.
Disconnect ==
  /\ Alive /\ pc = "recv"
  /\ Goto("end")
  /\ fault' = FALSE
  /\ UNCHANGED <<boardVars, req, resp, keys, held, env, leftVars, countVars>>

\* Mutant: only ML-KEM is looked at.
AnyWiping_OneCore == core["mlkem"].wiping
AnyWiping == \E c \in Cores : core[c].wiping

\* Before every request: neither core is wiping.
Check ==
  /\ Alive /\ pc = "check"
  /\ Wait(AnyWiping, Goto("op") /\ KeepResp, Fail)
  /\ UNCHANGED <<boardVars, req, keys, held, env, leftVars, countVars>>

\* The first free entry of a table; NKeys when there is none.
FirstFree(c) ==
  LET free == {h \in Handles : ~keys[c][h].used}
  IN  IF free = {} THEN NKeys ELSE CHOOSE h \in free : \A g \in free : h <= g

\* handle_op: the checks before the hardware is touched, and the requests that need
\* no core.  Requests that write or read other slaves only can fail by a fault.  A
\* symmetric request takes its key anew for every block; the step stands for one block.
Op ==
  /\ Alive /\ pc = "op"
  /\ LET c == req.c  h == req.h IN
     \/ /\ req.op = "keygen"
        /\ UNCHANGED <<fault, keys, held>>
        /\ IF FirstFree(c) = NKeys
           THEN Return("UNKNOWERR", NoOut) /\ UNCHANGED req
           ELSE req' = [req EXCEPT !.h = FirstFree(c)] /\ Goto("clr") /\ KeepResp
     \/ /\ req.op = "use"
        /\ UNCHANGED <<req, keys, held>>
        /\ IF ~keys[c][h].used
           THEN Return("KEYNOTEXIST", NoOut) /\ UNCHANGED fault
           ELSE Wait(FALSE, Goto("clr") /\ KeepResp, Fail)
     \/ /\ req.op = "pub"
        /\ UNCHANGED <<req, keys, held>>
        /\ Wait(FALSE, Goto(IF c = "mlkem" THEN "exp" ELSE "mode") /\ KeepResp, Fail)
     \/ /\ req.op = "export"
        /\ UNCHANGED <<req, fault, keys>>
        /\ IF keys[c][h].used
           THEN held' = held \cup {keys[c][h].blob} /\ Return("OK", NoOut)
           ELSE Return("KEYNOTEXIST", NoOut) /\ UNCHANGED held
     \/ /\ req.op = "import"
        /\ UNCHANGED <<fault, held>>
        /\ IF FirstFree(c) = NKeys
           THEN Return("UNKNOWERR", NoOut) /\ UNCHANGED <<req, keys>>
           ELSE /\ req' = [req EXCEPT !.h = FirstFree(c)]
                /\ keys' = [keys EXCEPT ![c][FirstFree(c)] = [used |-> TRUE, blob |-> req.blob]]
                /\ Return("OK", NoOut)
     \/ /\ req.op \in {"symgen", "symload"}
        /\ Goto("ta")
        /\ UNCHANGED <<req, resp, fault, keys, held>>
     \/ /\ req.op = "symuse"
        /\ UNCHANGED <<req, keys, held>>
        /\ Wait(vault[h].seed = 0,
                Return("OK", [op |-> "symuse", key |-> <<vault[h].seed>>,
                              mine |-> vault[h].by # "before", sure |-> TRUE]),
                Fail)
     \/ /\ req.op = "other"
        /\ fault' = ~hw /\ Return("OK", NoOut)
        /\ UNCHANGED <<req, keys, held>>
  /\ UNCHANGED <<boardVars, env, leftVars, countVars>>

\* seed_clr, before a seed is asked for and after the application failed: the wait ...
SeedClrWait ==
  /\ Alive /\ pc \in {"clr", "undo"}
  /\ Wait(core[req.c].wiping \/ core[req.c].expWiping,
          Goto(IF pc = "clr" THEN "clrW" ELSE "undoW") /\ KeepResp, Fail)
  /\ UNCHANGED <<boardVars, req, keys, held, env, leftVars, countVars>>

\* ... and the write.
SeedClr ==
  /\ Alive /\ pc \in {"clrW", "undoW"}
  /\ \/ hw /\ core[req.c].wiping /\ Hang("daemon")
     \/ /\ hw => ~core[req.c].wiping
        /\ fault' = (fault \/ ~hw)
        /\ core' = IF hw THEN [core EXCEPT ![req.c].staged = <<>>] ELSE core
        /\ IF pc = "undoW" \/ fault' THEN Fail ELSE Goto("ta") /\ KeepResp
        /\ UNCHANGED <<vault, ta, kek, hw, hung, req, keys, held, env, leftVars, countVars>>

\* ta_seed_new, ta_seed_replay and ta_symkey_cmd: the call waits for its turn.
Call ==
  /\ Alive /\ pc = "ta"
  /\ CASE req.op = "keygen"  -> TaCall("daemon", "SEED_NEW", req.c, NoBlob)
       [] req.op = "use"     -> TaCall("daemon", "SEED_REPLAY", req.c, keys[req.c][req.h].blob)
       [] req.op = "symgen"  -> TaCall("daemon", "SYMKEY_NEW", req.h, NoBlob)
       [] req.op = "symload" -> TaCall("daemon", "SYMKEY_LOAD", req.h, req.blob)
  /\ Goto("taWait")
  /\ UNCHANGED <<core, vault, kek, hw, hung, req, resp, fault, keys, held, env, leftVars, outages, kills>>

\* Mutant: the result of the seed command is dropped.
SeedInstalled_Assumed == TRUE
SeedInstalled == ta.res = "ok"

\* The application's answer; a new seed or key comes back sealed with the KEK.
Called ==
  /\ Alive /\ pc = "taWait" /\ ta.who = "daemon" /\ ta.res # "push"
  /\ ta' = IdleTa
  /\ UNCHANGED <<core, vault, kek, hw, hung, req, fault, env, leftVars, countVars>>
  /\ LET c == req.c
         Sealed(kind) == [kek |-> kek, kind |-> kind, seed |-> ta.seed]
     IN  CASE req.op \in {"keygen", "use"} /\ SeedInstalled ->
                /\ keys' = IF req.op = "use" THEN keys
                           ELSE [keys EXCEPT ![c][req.h].blob = Sealed(c)]
                /\ Goto(IF c = "mlkem" THEN "exp" ELSE "mode") /\ UNCHANGED <<resp, held>>
           [] req.op \in {"keygen", "use"} /\ ~SeedInstalled ->
                Goto("undo") /\ UNCHANGED <<resp, keys, held>>
           [] req.op = "symgen" /\ ta.res = "ok" ->
                held' = held \cup {Sealed("sym")} /\ Return("OK", NoOut) /\ UNCHANGED keys
           [] req.op = "symload" /\ ta.res = "ok" ->
                Return("OK", NoOut) /\ UNCHANGED <<keys, held>>
           [] req.op \in {"symgen", "symload"} /\ ta.res # "ok" ->
                Return(IF req.op = "symgen" THEN "HARDFAIL" ELSE "KEYNOTEXIST", NoOut)
                /\ UNCHANGED <<keys, held>>

\* wait_exp_idle: before MODE on ML-KEM, after it on ML-DSA.
WaitExpIdle ==
  /\ Alive /\ pc = "exp"
  /\ Wait(core[req.c].expWiping, Goto(IF req.c = "mlkem" THEN "mode" ELSE "feed") /\ KeepResp, Fail)
  /\ UNCHANGED <<boardVars, req, keys, held, env, leftVars, countVars>>

\* The MODE register.  ML-DSA refuses it while it runs; ML-KEM takes it, and the run
\* goes on in another mode.
WriteMode ==
  /\ Alive /\ pc = "mode"
  /\ LET c == req.c
         refuses == core[c].wiping \/ (c = "mldsa" /\ core[c].busy)
         mixed == core[c].busy /\ core[c].job.op # req.op
     IN  \/ hw /\ refuses /\ Hang("daemon")
         \/ /\ hw => ~refuses
            /\ fault' = (fault \/ ~hw)
            /\ core' = IF hw /\ mixed THEN [core EXCEPT ![c].job.op = "mixed"] ELSE core
            /\ Goto(IF c = "mlkem" THEN "feed" ELSE "exp")
            /\ UNCHANGED <<vault, ta, kek, hw, hung, req, resp, keys, held, env, leftVars, countVars>>

\* The input and the check of IN_PTR.  A busy ML-KEM ignores the bytes, which only a
\* run without input does not notice; a busy ML-DSA refuses the lengths.  When one of
\* these accesses fails, the writes before it may have been made, and IN_PTR, read as 0 or
\* left by an earlier request, may still be what it should; ML-DSA looks at hw_fault
\* before it reads it.
Feed ==
  /\ Alive /\ pc = "feed"
  /\ LET c == req.c
         refuses == core[c].wiping \/ (c = "mldsa" /\ core[c].busy)
         taken == req.op = "keygen" \/ (~fault' /\ ~core[c].busy) \/ (fault' /\ c = "mlkem")
     IN  \/ refuses /\ Hang("daemon")
         \/ /\ hw => ~refuses
            /\ fault' = (fault \/ ~hw)
            /\ \/ taken /\ Goto("start") /\ KeepResp
               \/ (fault' \/ ~taken) /\ Fail
            /\ \/ c = "mldsa" /\ core' = [core EXCEPT ![c].out = NoOut, ![c].refused = FALSE]
               \/ (c = "mlkem" \/ ~hw) /\ UNCHANGED core
            /\ UNCHANGED <<vault, ta, kek, hw, hung, req, keys, held, env, leftVars, countVars>>

\* START: ignored by a running core; refused, with the old result dropped, while the
\* expansion area is wiped or the seed is not complete; else it takes the staged seed.
\* After a failed access MODE may be that of an earlier request, or of none.
Start ==
  /\ Alive /\ pc = "start"
  /\ LET c == req.c
         Refused(op) ==
           core[c].expWiping \/ (op \in SeedOps /\ Len(core[c].staged) < Words)
         Run(op) ==
           [core EXCEPT ![c].refused = FALSE, ![c].out = NoOut, ![c].busy = TRUE,
              ![c].job = [op |-> op, mine |-> TRUE, sure |-> ~fault,
                          key |-> IF op \in SeedOps THEN core[c].staged ELSE <<>>],
              ![c].staged = IF op \in SeedOps THEN <<>> ELSE @]
     IN  \/ hw /\ core[c].wiping /\ Hang("daemon")
         \/ /\ hw => ~core[c].wiping
            /\ fault' = (fault \/ ~hw)
            /\ \/ (~hw \/ core[c].busy) /\ UNCHANGED core
               \/ /\ hw /\ ~core[c].busy /\ (fault \/ Refused(req.op))
                  /\ core' = [core EXCEPT ![c].refused = TRUE, ![c].out = NoOut]
               \/ /\ hw /\ ~core[c].busy
                  /\ \E op \in CoreOps :
                       (fault \/ op = req.op) /\ ~Refused(op) /\ core' = Run(op)
            /\ Goto("poll")
            /\ UNCHANGED <<vault, ta, kek, hw, hung, req, resp, keys, held, env, leftVars, countVars>>

Finished(c) == ~core[c].busy /\ core[c].out # NoOut

\* The daemon stops waiting; a run that goes on does so for nobody.
GiveUp(c) == Fail /\ late' = IF core[c].busy THEN late \cup {c} ELSE late

\* STATUS, read until it says refused or done, or until the patience of the daemon ends:
\* with a run that is too slow, or with none.
ReadStatus(c) ==
  \/ core[c].refused /\ GiveUp(c)
  \/ ~core[c].refused /\ Finished(c) /\ Goto("drain") /\ KeepResp /\ UNCHANGED late
  \/ ~core[c].refused /\ ~Finished(c) /\ (core[c].busy => c \in env.late) /\ GiveUp(c)

\* The wait for DONE.  That of ML-KEM is a number of reads: it does not look at hw_fault,
\* and a read that fails shows no bit.  That of ML-DSA lasts until a deadline, or until
\* hw_fault, of an earlier access or of its own.
Poll ==
  /\ Alive /\ pc = "poll"
  /\ fault' = (fault \/ ~hw)
  /\ LET c == req.c IN
     \/ hw /\ (c = "mldsa" => ~fault) /\ ReadStatus(c)
     \/ ~hw /\ c = "mlkem" /\ Goto("poll") /\ KeepResp /\ UNCHANGED late
     \/ (~hw \/ (c = "mldsa" /\ fault)) /\ GiveUp(c)
  /\ UNCHANGED <<boardVars, req, keys, held, env, unwiped, countVars>>

\* OUT_LEN, the output, and the check of its length, which Decaps and Verify do not
\* make.  After a failed access ML-KEM reads on and its KeyGen may fill its entry all the
\* same; the answer is HARDFAIL.
Drain ==
  /\ Alive /\ pc = "drain"
  /\ fault' = (fault \/ ~hw)
  /\ LET c == req.c
         out == core[c].out
         lengthOk == out.op \in {req.op, "mixed"}
                     \/ <<c, req.op>> \in {<<"mlkem", "use">>, <<"mldsa", "pub">>}
         keep == IF req.op = "keygen" THEN [keys EXCEPT ![c][req.h].used = TRUE] ELSE keys
     IN  \/ hw /\ lengthOk /\ keys' = keep /\ Return("OK", out)
         \/ hw /\ ~lengthOk /\ Fail /\ UNCHANGED keys
         \/ ~hw /\ Fail /\ UNCHANGED keys
         \/ ~hw /\ c = "mlkem" /\ keys' = keep /\ Return("OK", NoOut)
  /\ UNCHANGED <<boardVars, req, held, env, leftVars, countVars>>

\* The answer goes out, or the connection breaks.
Reply ==
  /\ Alive /\ pc = "reply"
  /\ \/ Goto("recv")
     \/ Goto("end")
  /\ fault' = FALSE /\ req' = NoReq /\ resp' = NoResp
  /\ UNCHANGED <<boardVars, keys, held, env, leftVars, countVars>>

\* session_end: the tables, then each core (the wait, the write), then the vault, then
\* the wait for both wipes.  A wait that fails skips its write, and its fault every
\* later wait.
EndKeys ==
  /\ Alive /\ pc = "end"
  /\ keys' = NoKeys
  /\ Wait(core["mlkem"].wiping, Goto("zeroK"), Goto("endD"))
  /\ UNCHANGED <<boardVars, req, resp, held, env, leftVars, countVars>>

EndWaitDsa ==
  /\ Alive /\ pc = "endD"
  /\ Wait(core["mldsa"].wiping, Goto("zeroD"), Goto("endS"))
  /\ UNCHANGED <<boardVars, req, resp, keys, held, env, leftVars, countVars>>

EndZeroize(c) ==
  /\ Alive /\ pc = (IF c = "mlkem" THEN "zeroK" ELSE "zeroD")
  /\ \/ hw /\ core[c].wiping /\ Hang("daemon")
     \/ /\ hw => ~core[c].wiping
        /\ fault' = (fault \/ ~hw)
        /\ core' = IF hw THEN [core EXCEPT ![c] = [ResetCore EXCEPT !.wiping = TRUE]]
                   ELSE core
        /\ late' = IF hw THEN late \ {c} ELSE late
        /\ UNCHANGED unwiped
        /\ Goto(IF c = "mlkem" THEN "endD" ELSE "endS")
        /\ UNCHANGED <<vault, ta, kek, hw, hung, req, resp, keys, held, env, countVars>>

\* Mutant: the vault keeps its keys.
EndVault_Keeps ==
  /\ Alive /\ pc = "endS"
  /\ fault' = (fault \/ ~hw) /\ unwiped' = ~hw
  /\ Goto("endW")
  /\ UNCHANGED <<core, vault, ta, kek, hw, hung, req, resp, keys, held, env, late, countVars>>

\* The write that wipes the vault goes out whatever failed before; nothing waits for it.
EndVault ==
  /\ Alive /\ pc = "endS"
  /\ fault' = (fault \/ ~hw) /\ unwiped' = ~hw
  /\ vault' = IF hw THEN [s \in SymSlots |-> NoKey] ELSE vault
  /\ Goto("endW")
  /\ UNCHANGED <<core, ta, kek, hw, hung, req, resp, keys, held, env, late, countVars>>

EndWait ==
  /\ Alive /\ pc = "endW"
  /\ fault' = FALSE /\ Goto("accept")
  /\ UNCHANGED <<boardVars, req, resp, keys, held, env, leftVars, countVars>>

\* The process is killed (it handles no signal) and started again by a script; the
\* command it had sent to the application runs on.
Kill ==
  /\ Alive /\ outages + kills < env.faults /\ pc # "boot"
  /\ kills' = kills + 1
  /\ keys' = NoKeys /\ fault' = FALSE /\ req' = NoReq /\ resp' = NoResp /\ Goto("boot")
  /\ ta' = IF ta.who = "daemon" THEN [ta EXCEPT !.who = "other"] ELSE ta
  /\ late' = late \cup {c \in Cores : core[c].busy} /\ unwiped' = TRUE
  /\ UNCHANGED <<core, vault, kek, hw, hung, held, env, nseed, outages>>

-----------------------------------------------------------------------------
Hardware == \E c \in Cores : CoreFinish(c) \/ CoreWiped(c)
Application == TaSeedWord \/ TaSymPush \/ OtherDone
Boot == BootKek \/ BootSeed \/ BootTested \/ BootClr
SessionEnd ==
  EndKeys \/ EndWaitDsa \/ (\E c \in Cores : EndZeroize(c)) \/ EndVault \/ EndWait
Serve ==
  \/ Check \/ Op \/ SeedClrWait \/ SeedClr \/ Call \/ Called
  \/ WaitExpIdle \/ WriteMode \/ Feed \/ Start \/ Poll \/ Drain \/ Reply

Next ==
  \/ Hardware \/ Application \/ OtherClient \/ Outage \/ Recover \/ Reload
  \/ Boot \/ Accept \/ Receive \/ Disconnect \/ Serve \/ SessionEnd \/ Kill

Spec == Init /\ [][Next]_vars

-----------------------------------------------------------------------------
(* Properties.                                                             *)

\* A run never computes with a seed put together from two: whatever other clients push
\* between the daemon's SEED_CLR, its SEED_NEW and its START, the words a core took as
\* one seed are words of one seed (pqchsm_fpgad.c:1018, seed_push, EL3's EFULL).  A START
\* written after a failed access, in whatever mode the core is, is answered HARDFAIL and
\* promises nothing.
SeedNeverMixed ==
  \A c \in Cores : \A r \in {core[c].job, core[c].out} :
     r.sure => \A i, j \in DOMAIN r.key : r.key[i] = r.key[j]

\* An OK answer to KeyGen, Decaps, Sign, Encaps or Verify is the result of a run this
\* request started, in its own mode, with the seed sealed in the handle's blob, whatever
\* failed accesses earlier requests left behind; unless the daemon gave up on an ML-KEM
\* run earlier in the connection (then the next KeyGen takes its result).
ReplyIsOwn ==
  pc = "reply" /\ resp.st = "OK" /\ req.op \in CoreOps /\ "mlkem" \notin late =>
    /\ resp.out.op = req.op /\ resp.out.mine
    /\ req.op # "pub" =>
         /\ Len(resp.out.key) = Words
         /\ \A i \in 1 .. Words : resp.out.key[i] = keys[req.c][req.h].blob.seed

\* No symmetric operation succeeds with a key an earlier connection loaded, unless the
\* wipe at the end of a connection was lost or never sent: one write, which nobody
\* repeats, whatever slots the session used and whatever other clients of the application
\* load beside it (pqchsm_fpgad.c:1101, sym_block).
NoInheritedSymKey ==
  pc = "reply" /\ resp.st = "OK" /\ req.op = "symuse" /\ ~unwiped => resp.out.mine

\* No write of the daemon reaches a slave that refuses it, whatever the order of wipes,
\* requests, disconnects and failed accesses; the exceptions are an ML-DSA run the daemon
\* gave up on earlier in this connection, and a restarted daemon's self test.
DaemonNeverHangs == hung = "daemon" => "mldsa" \in late \/ kills > 0

=============================================================================
