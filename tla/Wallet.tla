------------------------------- MODULE Wallet -------------------------------
(***************************************************************************)
(* An application that pays with TransactionBuilder beside a node: it adds *)
(* the output it wants, lets the builder find unspent outputs that pay to  *)
(* its keys, adds the change, and broadcasts what verifies. The builder    *)
(* reads the UTXO set of the storage itself, not a copy, and reads it      *)
(* again for each key and each output, while the node goes on storing      *)
(* blocks.                                                                 *)
(***************************************************************************)
EXTENDS Node

CONSTANTS
  Keys,
  keypairs,        \* the keys the application pays from, a sequence
  ChangeKey,
  Orders,          \* what it may have to pay: records of an Amount and a Fee
  LockingScript,   \* the script of each output, a sequence of operators
  Others,          \* the transactions of others
  TornPush         \* what a push holds that ends beyond its script

OutputsInPlay == UNION {Creates(t) : t \in TxHash}

ASSUME WalletAssumption ==
  /\ keypairs \in Seq(Keys) /\ keypairs # << >>
  /\ ChangeKey \in Keys
  /\ TornPush \notin Keys
  /\ Orders \subseteq [Amount : Nat \ {0}, Fee : Nat]
  /\ \A r \in Orders : r.Amount + r.Fee <= LongMax    \* it asks for a long
  /\ OutputsInPlay \subseteq DOMAIN LockingScript
  /\ Others \subseteq TxHash

VARIABLES
  paying,        \* where the application is in TransactionBuilder
  order,
  key,           \* the keypair it has come to, as an index
  iterated,      \* the UTXO set when the iteration over it began
  matched,       \* the outputs found for the key that are not yet looked up
  total,
  utxos,         \* the TreeMap: an output and its key for each amount
  payment,       \* the transaction under construction
  sent,          \* the payments that were broadcast
  undisturbed    \* whether the chain stayed the same since the builder began

builderVars == <<paying, order, key, iterated, matched, total, utxos, payment, undisturbed>>
walletVars  == <<nodeVars, builderVars, sent>>

NoOrder   == [Amount |-> 0, Fee |-> 0]
NoPayment == [Inputs |-> << >>, Outputs |-> << >>]

Places == {"nothing", "match", "iterate", "collect", "select",
           "matchAll", "iterateAll", "change", "built"}

WalletTypeOK ==
  /\ TypeOK
  /\ paying \in Places
  /\ order \in Orders \cup {NoOrder}
  /\ key \in DOMAIN keypairs
  /\ iterated \cup matched \subseteq OutputsInPlay
  /\ total \in Int
  /\ \A amount \in DOMAIN utxos : utxos[amount] \in OutputsInPlay \X Keys
  /\ payment.Inputs \in Seq(Input) /\ payment.Outputs \in Seq(Output)
  /\ sent \subseteq TxHash
  /\ undisturbed \in BOOLEAN
  /\ paying = "nothing" => order = NoOrder /\ payment = NoPayment

WalletInit ==
  /\ Init
  /\ paying = "nothing"
  /\ order = NoOrder
  /\ key = 1
  /\ iterated = {}
  /\ matched = {}
  /\ total = 0
  /\ utxos = << >>
  /\ payment = NoPayment
  /\ sent = {}
  /\ undisturbed = FALSE

AmountOf(o) == OutputsOf(o[1])[o[2] + 1].Amount

-----------------------------------------------------------------------------
(* ScriptMatcher and BlockchainUtil                                        *)

Op(name)     == [op |-> name, data |-> TornPush]
Push(data)   == [op |-> "PUSH", data |-> data]

\* getMatcherP2PKH; the memo at the end is optional.
P2PKH == <<"DUP", "SHA512", "PUSH", "BYTESEQUAL", "VERIFY", "VERIFYSIG", "PUSH">>

\* The first n operators of the script are those the matcher expects.
Agrees(script, n) == \A i \in 1 .. n : i \in DOMAIN script => script[i].op = P2PKH[i]

\* match leaves out what follows the memo.
match(script) == Len(script) >= 6 /\ Agrees(script, 7)

\* The push it skips goes on beyond the script: an exception of Java.
Throws(script) ==
  \E i \in {3, 7} \cap DOMAIN script : Agrees(script, i) /\ script[i] = Push(TornPush)

\* The outputs of a set that pay to key k.
matchP2pkh(outputs, k) ==
  {o \in outputs : match(LockingScript[o]) /\ LockingScript[o][3].data = k}

matchFails(outputs) == \E o \in outputs : Throws(LockingScript[o])

getBalanceForP2phkAddress(k) ==
  Total([o \in matchP2pkh(unspentTransactionOutputSet, k) |-> AmountOf(o)])

\* What key k signs unlocks output o: it is paid to that key, and nothing after
\* the memo fails.
Unlocks(o, k) ==
  LET script == LockingScript[o]
  IN  /\ o \in matchP2pkh({o}, k)
      /\ \A i \in 8 .. Len(script) : script[i].op # "FAIL"

-----------------------------------------------------------------------------
(* TransactionBuilder                                                      *)

InputFor(o, k) == [InputHash |-> o[1], IndexNumber |-> o[2], unlocks |-> Unlocks(o, k)]

OutputFor(amount) == [Amount |-> amount, lockFits |-> TRUE]

Leave == UNCHANGED <<nodeVars, sent, undisturbed>>

\* The application gives up, or has what it wanted.
Drop ==
  /\ paying' = "nothing"
  /\ order' = NoOrder
  /\ key' = 1
  /\ iterated' = {}
  /\ matched' = {}
  /\ total' = 0
  /\ utxos' = << >>
  /\ payment' = NoPayment
  /\ undisturbed' = FALSE

\* addOutput, and on to one of the two ways to find inputs.
AddOutput ==
  /\ paying = "nothing"
  /\ order' \in Orders
  /\ payment' = [NoPayment EXCEPT !.Outputs = <<OutputFor(order'.Amount)>>]
  /\ paying' \in {"match", "matchAll"}
  /\ key' \in IF paying' = "matchAll" THEN DOMAIN keypairs ELSE {1}
  /\ undisturbed' = TRUE
  /\ UNCHANGED <<nodeVars, sent, iterated, matched, total, utxos>>

\* matchUtxoForP2phkAddress: what an iteration over the UTXO set may yield. A
\* set that another thread changes meanwhile may end it with an exception, or
\* hide and show whatever was in it before or is now.
Found(k) ==
  IF iterated = unspentTransactionOutputSet
  THEN {matchP2pkh(iterated, k)}
  ELSE SUBSET matchP2pkh(iterated \cup unspentTransactionOutputSet, k)

IterationEnds  == ~matchFails(iterated \cap unspentTransactionOutputSet)
IterationFails == matchFails(iterated) \/ iterated # unspentTransactionOutputSet

BeginMatching ==
  /\ \/ paying = "match"    /\ paying' = "iterate"
     \/ paying = "matchAll" /\ paying' = "iterateAll"
  /\ iterated' = unspentTransactionOutputSet
  /\ UNCHANGED <<order, key, matched, total, utxos, payment>>
  /\ Leave

NextKey ==
  IF key < Len(keypairs)
  THEN key' = key + 1 /\ paying' = "match"
  ELSE paying' = "select" /\ UNCHANGED key

\* addInputsFromMultipleKeypairsP2pkh: an exception passes over the key; of the
\* outputs found, ...
EndMatching ==
  /\ paying = "iterate"
  /\ iterated' = {}
  /\ \/ /\ IterationEnds
        /\ matched' \in Found(keypairs[key])
        /\ paying' = "collect"
        /\ UNCHANGED key
     \/ IterationFails /\ NextKey /\ UNCHANGED matched
  /\ UNCHANGED <<order, total, utxos, payment>>
  /\ Leave

\* ... those still unspent go into the map, in any order. Outputs of one amount
\* take the same place there, but all of them count.
Collect ==
  /\ paying = "collect"
  /\ \/ \E o \in matched :
          /\ matched' = matched \ {o}
          /\ IF isTransactionOutputSpent(o)
             THEN UNCHANGED <<total, utxos>>
             ELSE /\ total' = Wrap(total + AmountOf(o))
                  /\ utxos' = [a \in DOMAIN utxos \cup {AmountOf(o)} |->
                       IF a = AmountOf(o) THEN <<o, keypairs[key]>> ELSE utxos[a]]
          /\ UNCHANGED <<paying, key>>
     \/ matched = {} /\ NextKey /\ UNCHANGED <<matched, total, utxos>>
  /\ UNCHANGED <<order, iterated, payment>>
  /\ Leave

Needed == order.Amount + order.Fee

\* Some of the amounts of the map add up to this.
SumOf(amounts) == SumFunction([a \in amounts |-> a])

Smaller(a) == {c \in DOMAIN utxos : c < a}

Ascending(amounts) ==
  CHOOSE s \in SetToSeqs(amounts) : \A i, j \in DOMAIN s : i < j => s[i] < s[j]

\* The inputs for the amounts of a set, in ascending order.
InputsFor(amounts) ==
  [i \in DOMAIN Ascending(amounts) |->
     LET utxo == utxos[Ascending(amounts)[i]] IN InputFor(utxo[1], utxo[2])]

\* Slip: exactly enough is not enough.
SelectMore ==
  /\ paying = "select"
  /\ paying' = "change"
  /\ payment' = [payment EXCEPT !.Inputs =
       IF total <= Needed
       THEN << >>
       ELSE InputsFor({a \in DOMAIN utxos : SumOf(Smaller(a)) < Needed})]
  /\ UNCHANGED <<order, key, iterated, matched, total, utxos>>
  /\ Leave

\* The smallest amounts of the map, until they are enough or there are no more;
\* none if all that was found would not do.
Select ==
  /\ paying = "select"
  /\ paying' = "change"
  /\ payment' = [payment EXCEPT !.Inputs =
       IF total < Needed
       THEN << >>
       ELSE InputsFor({a \in DOMAIN utxos : SumOf(Smaller(a)) < Needed})]
  /\ UNCHANGED <<order, key, iterated, matched, total, utxos>>
  /\ Leave

\* addInputsFromAllP2pkhUtxo: every output of one key, unspent or not by now, in
\* any order. An exception ends it all.
TakeAll ==
  /\ paying = "iterateAll"
  /\ \/ /\ IterationEnds
        /\ paying' = "change"
        /\ iterated' = {}
        /\ \E outputs \in Found(keypairs[key]) : \E inOrder \in SetToSeqs(outputs) :
             payment' = [payment EXCEPT !.Inputs =
               [i \in DOMAIN inOrder |-> InputFor(inOrder[i], keypairs[key])]]
        /\ UNCHANGED <<order, key, matched, total, utxos>>
        /\ Leave
     \/ IterationFails /\ Drop /\ UNCHANGED <<nodeVars, sent>>

\* What is left for the change.
Change ==
  Wrap(Total([i \in DOMAIN payment.Inputs |-> InputAmount(payment.Inputs[i])])
       - order.Amount - order.Fee)

\* Slip: a debt is no change.
AddChangeIfAny ==
  /\ paying = "change"
  /\ paying' = "built"
  /\ payment' = [payment EXCEPT !.Outputs =
       IF Change <= 0 THEN @ ELSE Append(@, OutputFor(Change))]
  /\ UNCHANGED <<order, key, iterated, matched, total, utxos>>
  /\ Leave

\* addChangeOutputToPublicKeyHash: where inputs fall short it warns, and adds an
\* output of a negative amount. (The assertion after the warning is off.)
AddChange ==
  /\ paying = "change"
  /\ paying' = "built"
  /\ payment' = [payment EXCEPT !.Outputs =
       IF Change = 0 THEN @ ELSE Append(@, OutputFor(Change))]
  /\ UNCHANGED <<order, key, iterated, matched, total, utxos>>
  /\ Leave

-----------------------------------------------------------------------------
(* The application and the node                                            *)

\* Transaction t is the payment; its change, if any, is paid to ChangeKey.
IsPayment(t) ==
  /\ InputsOf(t) = payment.Inputs
  /\ OutputsOf(t) = payment.Outputs
  /\ Len(OutputsOf(t)) = 2 => Unlocks(<<t, 1>>, ChangeKey)

\* The application broadcasts a payment that verifies, and drops any other.
Finish ==
  /\ paying = "built"
  /\ sent' = sent \cup {t \in TxHash : IsPayment(t) /\ transactionVerify(t)}
  /\ Drop
  /\ UNCHANGED nodeVars

Pay ==
  \/ AddOutput \/ BeginMatching \/ EndMatching \/ Collect \/ Select
  \/ TakeAll \/ AddChange \/ Finish

\* The node, which hears of a payment only after it was sent. (What others have
\* pending is nothing to the wallet before it is in a block.)
Serve ==
  /\ \/ \E b \in BlockHash :
          /\ \A k \in 2 .. Len(TxsOf(b)) : TxsOf(b)[k] \in Others \cup sent
          /\ ReceiveBlock(b)
     \/ \E t \in sent : ReceiveTransaction(t)
     \/ AssembleCandidate
     \/ Tick /\ UNCHANGED <<storageVars, relays, heightsTold>>
  /\ undisturbed' = (undisturbed /\ chainVars' = chainVars)
  /\ UNCHANGED <<paying, order, key, iterated, matched, total, utxos, payment, sent>>

WalletNext == Pay \/ Serve

WalletSpec == WalletInit /\ [][WalletNext]_walletVars

-----------------------------------------------------------------------------
(* What the builder promises                                               *)

\* A payment that verifies leaves the miner the fee that was asked for, and not
\* a coin more or less: whatever the races hide from the builder, however many
\* outputs share a place in the map, what falls short is refused and what is
\* left over comes back.
PaysExactFee ==
  paying = "built" =>
    \A t \in TxHash : IsPayment(t) /\ transactionVerify(t) => getFees(t) = order.Fee

\* The outputs that pay to a set of keys.
OwnedBy(keys) == UNION {matchP2pkh(unspentTransactionOutputSet, k) : k \in keys}

\* The keys this payment is made from: one, if nothing went into the map.
Sources == IF utxos = << >> THEN {keypairs[key]} ELSE {keypairs[i] : i \in DOMAIN keypairs}

\* Nothing stands in the way of a payment: the keys have enough, no two of their
\* outputs share an amount, each can be spent by now and is not spent by a
\* pending transaction, and no script in the whole UTXO set stops the matcher.
Payable ==
  LET Owned == OwnedBy(Sources)
  IN  /\ SumFunction([k \in Sources |-> getBalanceForP2phkAddress(k)]) >= Needed
      /\ \A o, p \in Owned : o # p => AmountOf(o) # AmountOf(p)
      /\ \A o \in Owned :
           /\ \E k \in Sources : Unlocks(o, k)
           /\ clock >= TxOf[o[1]].TimeStamp
           /\ ~doTransactionsContainTXO(o)
      /\ ~matchFails(unspentTransactionOutputSet)

\* Then, unless the chain changed meanwhile, the node accepts the payment.
\* (TransactionBuilder and BlockchainUtil look at none of these conditions but the
\* first: each of the others turns a balance that suffices into a payment that
\* is refused.)
UndisturbedPays ==
  paying = "built" /\ undisturbed /\ Payable =>
    \E t \in TxHash :
      /\ IsPayment(t)
      /\ TxOf[t].Size * MinSatPerByte < order.Fee => acceptable(t)
=============================================================================
