------------------------------ MODULE Password ------------------------------
(***************************************************************************)
(* Kopete::Password and Kopete::WalletManager: the asynchronous requests   *)
(* that read, set and clear the password of one account, the wallet they   *)
(* wait for and the configuration file they fall back on.                  *)
(*                                                                         *)
(* `stack' is the call stack of the only thread.  A frame is one emission  *)
(* of KopeteWalletSignal::walletOpened(): the wallet it carries, the       *)
(* requests still to be served and the request that shows a message box    *)
(* (0: none).  A message box runs a nested event loop, so that anything    *)
(* may happen on top of its frame; any other frame runs to its end first.  *)
(*                                                                         *)
(* Definitions named Mutant... are the forms a slip in the code would give *)
(* the definition that follows; the specification never uses them.         *)
(***************************************************************************)
EXTENDS Naturals, Sequences

CONSTANTS
    Passwords,     \* passwords
    NoPassword,    \* QString()
    MaxCalls,      \* bound on the calls of request(), set() and clear()
    MaxWallets,    \* bound on the KWallet::Wallet objects ever opened
    MaxWrong       \* bound on the reports of a wrong password

ASSUME PasswordAssumption ==
    /\ NoPassword \notin Passwords
    /\ MaxCalls \in Nat /\ MaxWallets \in Nat /\ MaxWrong \in Nat

VARIABLES
    (* Kopete::Password::Private *)
    remembered, fromConfig, isWrong, cached, allowBlank,
    (* KWallet *)
    enabled,    \* KWallet::Wallet::isEnabled()
    entry,      \* the password in the wallet
    (* WalletManager::Private *)
    wallet,     \* d->wallet, numbered in the order of creation; 0: none
    open,       \* d->wallet->isOpen()
    waiters,    \* the requests connected to d->signal
    posted,     \* pending calls of slotGiveExistingWallet()
    (* the requests *)
    req,        \* the KopetePasswordRequest objects
    owner,      \* the account that owns the requests to read exists
    stack,
    crashed,    \* a deleted object was used
    (* bounds and history *)
    nCalls, nWallets, nWrong,
    last,       \* what set() or clear() was asked last
    boxed,      \* a message box was shown
    migrated    \* a password was moved from the configuration to the wallet

storeVars == <<remembered, fromConfig, isWrong, cached, entry>>
prefVars  == <<enabled, allowBlank>>
walVars   == <<wallet, open, waiters, posted, nWallets>>
histVars  == <<nCalls, nWrong, last, boxed, migrated>>
vars == <<storeVars, prefVars, walVars, req, owner, stack, crashed, histVars>>

Values  == Passwords \cup {NoPassword}
Wallets == 0..MaxWallets

(* A call makes one request; a request to read may make two to set, one    *)
(* for the password in the configuration and one for what the user enters. *)
Ids == 1..(3 * MaxCalls)

Reads   == {"prompt", "fromUser", "noPrompt"}
Request == [kind : Reads \cup {"set", "clear"}, value : Values,
            state : {"free", "waiting", "gone", "grabbed", "entered", "dialog", "dangling"}]
Frame   == [wal : Wallets, rest : Seq(Ids), box : Ids \cup {0}]

(* No object. *)
Free == [kind |-> "set", value |-> NoPassword, state |-> "free"]

Top        == stack[Len(stack)]
Below      == SubSeq(stack, 1, Len(stack) - 1)
Responsive == ~crashed /\ (stack # <<>> => Top.box # 0)
Running    == ~crashed /\ stack # <<>> /\ Top.box = 0
-----------------------------------------------------------------------------
(* readConfig(): nothing stored, or a password remembered in the wallet or *)
(* in the configuration file.                                              *)
Init ==
    /\ \/ remembered = FALSE /\ fromConfig = NoPassword /\ entry = NoPassword
       \/ remembered = TRUE /\ fromConfig = NoPassword /\ entry \in Passwords
       \/ remembered = TRUE /\ fromConfig \in Passwords /\ entry = NoPassword
    /\ isWrong \in BOOLEAN /\ allowBlank \in BOOLEAN /\ enabled \in BOOLEAN
    /\ cached = NoPassword
    /\ wallet = 0 /\ open = FALSE /\ waiters = <<>> /\ posted = 0
    /\ req = [r \in Ids |-> Free]
    /\ owner = TRUE /\ stack = <<>> /\ crashed = FALSE
    /\ nCalls = 0 /\ nWallets = 0 /\ nWrong = 0
    /\ last = <<"none", NoPassword>>
    /\ boxed = FALSE /\ migrated = FALSE
-----------------------------------------------------------------------------
(* WalletManager *)

(* emitWalletOpened(): the signal is taken out of the manager, so that     *)
(* requests made meanwhile wait for the next one.                          *)
Emission(w, rest) == [wal |-> w, rest |-> rest, box |-> 0]

MutantOpenWalletInner(S, W, p) ==
    \/ /\ wallet # 0
       /\ posted' = p
       /\ waiters' = W /\ stack' = S
       /\ UNCHANGED <<wallet, open, nWallets>>
    \/ /\ wallet = 0 /\ nWallets < MaxWallets
       /\ nWallets' = nWallets + 1 /\ wallet' = nWallets + 1 /\ open' = FALSE
       /\ waiters' = W /\ stack' = S /\ posted' = p

(* openWalletInner() with the stack S, the requests W connected and p      *)
(* calls of slotGiveExistingWallet() pending: an open wallet is given      *)
(* later; one being opened will tell; without one, KWallet returns a       *)
(* wallet that will tell, or none at all.                                  *)
OpenWalletInner(S, W, p) ==
    \/ /\ wallet # 0
       /\ posted' = IF open THEN p + 1 ELSE p
       /\ waiters' = W /\ stack' = S
       /\ UNCHANGED <<wallet, open, nWallets>>
    \/ /\ wallet = 0 /\ nWallets < MaxWallets
       /\ nWallets' = nWallets + 1 /\ wallet' = nWallets + 1 /\ open' = FALSE
       /\ waiters' = W /\ stack' = S /\ posted' = p
    \/ /\ wallet = 0
       /\ waiters' = <<>> /\ stack' = Append(S, Emission(0, W)) /\ posted' = p
       /\ UNCHANGED <<wallet, open, nWallets>>

MutantSlotWalletChangedStatus(usable) ==
    /\ Responsive
    /\ wallet # 0 /\ ~open
    /\ usable => enabled
    /\ open' = usable
    /\ wallet' = IF usable THEN wallet ELSE 0
    /\ stack' = Append(stack, Emission(wallet, waiters))
    /\ waiters' = <<>>
    /\ UNCHANGED <<storeVars, prefVars, posted, nWallets, req, owner, histVars, crashed>>

(* slotWalletChangedStatus(): the wallet opened, or failed to (as it does  *)
(* when wallets are disabled), or has no usable folder.                    *)
SlotWalletChangedStatus(usable) ==
    /\ Responsive
    /\ wallet # 0 /\ ~open
    /\ usable => enabled
    /\ open' = usable
    /\ wallet' = IF usable THEN wallet ELSE 0
    /\ stack' = Append(stack, Emission(wallet', waiters))
    /\ waiters' = <<>>
    /\ UNCHANGED <<storeVars, prefVars, posted, nWallets, req, owner, histVars, crashed>>

SlotGiveExistingWallet ==
    /\ Responsive
    /\ posted > 0
    /\ IF wallet = 0 THEN OpenWalletInner(stack, waiters, posted - 1)
       ELSE /\ posted' = posted - 1
            /\ IF open THEN /\ stack' = Append(stack, Emission(wallet, waiters))
                            /\ waiters' = <<>>
               ELSE UNCHANGED <<stack, waiters>>
            /\ UNCHANGED <<wallet, open, nWallets>>
    /\ UNCHANGED <<storeVars, prefVars, req, owner, histVars, crashed>>

(* closeWallet(), when KWallet reports walletClosed(). *)
CloseWallet ==
    /\ Responsive
    /\ wallet # 0 /\ open
    /\ wallet' = 0 /\ open' = FALSE
    /\ UNCHANGED <<storeVars, prefVars, waiters, posted, nWallets, req, owner, stack,
                   crashed, histVars>>
-----------------------------------------------------------------------------
(* Calls of Kopete::Password. *)

(* A new request and its begin(), which connects it to the signal and      *)
(* opens the wallet, with the stack S and the other requests R.  There are *)
(* Ids enough that one is free.                                            *)
Begin(k, v, S, R) ==
    LET r == CHOOSE i \in Ids : R[i] = Free
    IN  /\ r \in Ids /\ R[r] = Free
        /\ req' = [R EXCEPT ![r] = [kind |-> k, value |-> v, state |-> "waiting"]]
        /\ OpenWalletInner(S, Append(waiters, r), posted)

Call(k, v) ==
    /\ Begin(k, v, stack, req)
    /\ UNCHANGED <<storeVars, prefVars, owner, nWrong, boxed, migrated, crashed>>

CanCall == Responsive /\ owner /\ nCalls < MaxCalls /\ nCalls' = nCalls + 1

(* PasswordedAccount::connect() without a cached password. *)
Connect ==
    /\ CanCall /\ cached = NoPassword /\ ~allowBlank
    /\ Call(IF isWrong THEN "fromUser" ELSE "prompt", NoPassword)
    /\ UNCHANGED last

RequestWithoutPrompt == CanCall /\ Call("noPrompt", NoPassword) /\ UNCHANGED last

Clear == CanCall /\ Call("clear", NoPassword) /\ last' = <<"clear", NoPassword>>

(* set(p), and set(QString()) as removeAccount() calls it. *)
Set(p) == CanCall /\ Call("set", p) /\ last' = <<"set", p>>

SetNull ==
    /\ CanCall
    /\ last' = <<IF allowBlank THEN "set" ELSE "forget", NoPassword>>
    /\ \/ allowBlank /\ Call("set", NoPassword)
       \/ ~allowBlank /\ remembered /\ Call("clear", NoPassword)
       \/ /\ ~allowBlank /\ ~remembered
          /\ UNCHANGED <<storeVars, prefVars, walVars, req, owner, nWrong, boxed, migrated,
                         stack, crashed>>

(* setWrong(true), when the server rejects the password. *)
SetWrong ==
    /\ Responsive /\ owner /\ nWrong < MaxWrong
    /\ nWrong' = nWrong + 1
    /\ isWrong' = TRUE
    /\ cached' = NoPassword
    /\ UNCHANGED <<remembered, fromConfig, entry, prefVars, walVars, req, owner, nCalls, last,
                   boxed, migrated, stack, crashed>>

(* The account is destroyed, and with it its requests to read, which are   *)
(* its children.  The signal passes over one that waited; one below a      *)
(* message box is still executing.                                         *)
DestroyOwner ==
    /\ Responsive /\ owner
    /\ owner' = FALSE
    /\ req' = [r \in Ids |->
           CASE req[r].kind \in Reads /\ req[r].state = "waiting" -> [req[r] EXCEPT !.state = "gone"]
             [] req[r].state = "dialog" -> Free
             [] req[r].state \in {"grabbed", "entered"} -> [req[r] EXCEPT !.state = "dangling"]
             [] OTHER -> req[r]]
    /\ UNCHANGED <<storeVars, prefVars, walVars, stack, crashed, histVars>>
-----------------------------------------------------------------------------
(* The wallet reaches the requests: walletReceived() of each in turn. *)

Served == [stack EXCEPT ![Len(stack)].rest = Tail(@)]

(* finished(): the result is cached and sent to who asked. *)
Finish(r, result) == cached' = result /\ req' = [req EXCEPT ![r] = Free]

(* What processRequest() does with the password it grabbed. *)
Grabbed(r, result) ==
    /\ stack' = Served
    /\ IF req[r].kind = "fromUser" \/ (req[r].kind = "prompt" /\ result = NoPassword)
       THEN req' = [req EXCEPT ![r].state = "dialog"] /\ UNCHANGED cached
       ELSE Finish(r, result)

(* grabPassword(): a password in the configuration is moved to the wallet, *)
(* otherwise the wallet is read.                                           *)
ServeGet(r) ==
    /\ req[r].kind \in Reads /\ req[r].state = "waiting"
    /\ IF remembered /\ fromConfig # NoPassword
       THEN /\ Begin("set", fromConfig, stack,
                     [req EXCEPT ![r].state = "grabbed", ![r].value = fromConfig])
            /\ migrated' = TRUE
            /\ UNCHANGED cached
       ELSE /\ \/ Top.wal # 0 /\ Grabbed(r, entry)
               \/ Grabbed(r, NoPassword)
            /\ UNCHANGED <<walVars, migrated>>
    /\ UNCHANGED <<remembered, fromConfig, isWrong, entry, boxed>>

(* set() inside grabPassword() or gotPassword() has returned. *)
ServeReturn(r) ==
    /\ \/ req[r].state = "grabbed" /\ Grabbed(r, req[r].value)
       \/ req[r].state = "entered" /\ stack' = Served /\ Finish(r, req[r].value)
    /\ UNCHANGED <<remembered, fromConfig, isWrong, entry, walVars, boxed, migrated>>

MutantStore(r, config, walletEntry) ==
    /\ remembered' = TRUE
    /\ entry' = walletEntry
    /\ isWrong' = FALSE
    /\ cached' = req[r].value
    /\ req' = [req EXCEPT ![r] = Free]
    /\ UNCHANGED fromConfig

(* setPassword() stored the password; processRequest() resets the flag and *)
(* the request deletes itself.                                             *)
Store(r, config, walletEntry) ==
    /\ remembered' = TRUE
    /\ fromConfig' = config
    /\ entry' = walletEntry
    /\ isWrong' = FALSE
    /\ cached' = req[r].value
    /\ req' = [req EXCEPT ![r] = Free]

MutantShowBox(r) == stack' = [Served EXCEPT ![Len(stack)].box = r] /\ boxed' = TRUE

(* warningContinueCancel() starts a nested event loop. *)
ShowBox(r) == stack' = [stack EXCEPT ![Len(stack)].box = r] /\ boxed' = TRUE

(* SetRequest: written to the wallet; otherwise the user is asked, or with *)
(* wallets disabled the configuration file is used at once.                *)
ServeSet(r) ==
    /\ req[r].kind = "set" /\ req[r].state = "waiting"
    /\ \/ Top.wal # 0 /\ Store(r, NoPassword, req[r].value) /\ stack' = Served /\ UNCHANGED boxed
       \/ ~enabled /\ Store(r, req[r].value, entry) /\ stack' = Served /\ UNCHANGED boxed
       \/ enabled /\ ShowBox(r) /\ UNCHANGED <<storeVars, req>>
    /\ UNCHANGED <<walVars, migrated>>

ServeClear(r) ==
    /\ req[r].kind = "clear" /\ req[r].state = "waiting"
    /\ remembered' = FALSE
    /\ fromConfig' = NoPassword
    /\ entry' = IF Top.wal # 0 THEN NoPassword ELSE entry
    /\ isWrong' = TRUE
    /\ cached' = NoPassword
    /\ req' = [req EXCEPT ![r] = Free]
    /\ stack' = Served
    /\ UNCHANGED <<walVars, boxed, migrated>>

(* Qt passes over a receiver that was deleted. *)
ServeGone(r) ==
    /\ req[r].state = "gone"
    /\ req' = [req EXCEPT ![r] = Free]
    /\ stack' = Served
    /\ UNCHANGED <<storeVars, walVars, boxed, migrated>>

(* The signal's wallet was deleted during a message box, or the request    *)
(* below the box was.                                                      *)
UsesDeleted(r) ==
    \/ req[r].state = "dangling"
    \/ /\ req[r].state = "waiting" /\ Top.wal # 0 /\ Top.wal # wallet
       /\ req[r].kind \in {"set", "clear"} \/ ~remembered \/ fromConfig = NoPassword

Serve ==
    /\ Running /\ Top.rest # <<>>
    /\ LET r == Head(Top.rest)
       IN  IF UsesDeleted(r)
           THEN crashed' = TRUE
                /\ UNCHANGED <<storeVars, walVars, req, boxed, migrated, stack>>
           ELSE /\ ServeGone(r) \/ ServeGet(r) \/ ServeReturn(r) \/ ServeSet(r) \/ ServeClear(r)
                /\ UNCHANGED crashed
    /\ UNCHANGED <<prefVars, owner, nCalls, nWrong, last>>

EndEmission ==
    /\ Running /\ Top.rest = <<>>
    /\ stack' = Below
    /\ UNCHANGED <<storeVars, prefVars, walVars, req, owner, crashed, histVars>>
-----------------------------------------------------------------------------
(* The user. *)

(* gotPassword(): what is kept is stored by a request of its own. *)
GotPassword(r, p, keep) ==
    /\ Responsive /\ req[r].state = "dialog"
    /\ IF keep
       THEN /\ Begin("set", p, Append(stack, Emission(0, <<r>>)),
                     [req EXCEPT ![r].state = "entered", ![r].value = p])
            /\ last' = <<"set", p>>
            /\ UNCHANGED cached
       ELSE Finish(r, p) /\ UNCHANGED <<walVars, stack, last>>
    /\ UNCHANGED <<remembered, fromConfig, isWrong, entry, prefVars, owner, nCalls, nWrong,
                   boxed, migrated, crashed>>

(* slotCancelPressed() *)
CancelPressed(r) ==
    /\ Responsive /\ req[r].state = "dialog"
    /\ Finish(r, NoPassword)
    /\ UNCHANGED <<remembered, fromConfig, isWrong, entry, prefVars, walVars, owner, stack,
                   crashed, histVars>>

(* The user answers the message box on top: store the password in the      *)
(* configuration file, or not at all.                                      *)
AnswerBox(unsafe) ==
    /\ ~crashed /\ stack # <<>> /\ Top.box # 0
    /\ stack' = Append(Below, Emission(Top.wal, Tail(Top.rest)))
    /\ IF unsafe THEN Store(Top.box, req[Top.box].value, entry)
       ELSE req' = [req EXCEPT ![Top.box] = Free] /\ UNCHANGED storeVars
    /\ UNCHANGED <<prefVars, walVars, owner, crashed, histVars>>
-----------------------------------------------------------------------------
Thread == Serve \/ EndEmission

Calls ==
    \/ Connect \/ RequestWithoutPrompt \/ SetNull \/ Clear \/ SetWrong \/ DestroyOwner
    \/ \E p \in Passwords : Set(p)

User ==
    \/ \E r \in Ids : \/ CancelPressed(r)
                      \/ \E p \in Passwords, keep \in BOOLEAN : GotPassword(r, p, keep)
    \/ \E unsafe \in BOOLEAN : AnswerBox(unsafe)

WalletAnswers == \E usable \in BOOLEAN : SlotWalletChangedStatus(usable)

Next == Thread \/ Calls \/ User \/ WalletAnswers \/ SlotGiveExistingWallet \/ CloseWallet

(* The thread runs, its event loop delivers what is posted, and KWallet    *)
(* answers an asynchronous openWallet().  Nothing is assumed of the user.  *)
Fairness == WF_vars(Thread) /\ WF_vars(SlotGiveExistingWallet) /\ WF_vars(WalletAnswers)

Spec == Init /\ [][Next]_vars /\ Fairness
-----------------------------------------------------------------------------
(* The state is well formed; a box is shown for the request at the head of *)
(* its emission.                                                           *)
TypeOK ==
    /\ remembered \in BOOLEAN /\ isWrong \in BOOLEAN /\ enabled \in BOOLEAN
    /\ allowBlank \in BOOLEAN /\ open \in BOOLEAN /\ owner \in BOOLEAN
    /\ fromConfig \in Values /\ cached \in Values /\ entry \in Values
    /\ wallet \in Wallets /\ nWallets \in Wallets
    /\ waiters \in Seq(Ids) /\ posted \in Nat
    /\ req \in [Ids -> Request]
    /\ stack \in Seq(Frame)
    /\ \A i \in 1..Len(stack) :
          stack[i].box # 0 => stack[i].rest # <<>> /\ stack[i].box = Head(stack[i].rest)
    /\ crashed \in BOOLEAN /\ boxed \in BOOLEAN /\ migrated \in BOOLEAN
    /\ nCalls \in 0..MaxCalls /\ nWrong \in 0..MaxWrong

(* Outside a message box no deleted wallet and no deleted request is used: *)
(* the callbacks that run inside one another do not destroy what the outer *)
(* ones hold.                                                              *)
DanglingOnlyAfterBox == crashed => boxed

(* grabPassword(): the password that will be found next time. *)
Effective ==
    CASE remembered /\ fromConfig # NoPassword -> fromConfig
      [] enabled /\ ~(remembered /\ fromConfig # NoPassword) -> entry
      [] OTHER -> NoPassword

Quiet == stack = <<>> /\ waiters = <<>>

(* When all requests are done, the password in effect is the one set last: *)
(* asynchronous requests keep their order, and a password in the wallet    *)
(* and one in the configuration file do not hide each other.  This needs   *)
(* that no message box delayed a request and that no password was moved    *)
(* from the configuration file.                                            *)
LastSetWins ==
    Quiet /\ last[1] = "set" /\ ~boxed /\ ~migrated => Effective = last[2]

(* The requests get past the wallet, however often it is lost meanwhile,   *)
(* unless a message box holds them up.                                     *)
RequestsServed ==
    ~Quiet ~> (Quiet \/ crashed \/ \E i \in 1..Len(stack) : stack[i].box # 0)
=============================================================================
