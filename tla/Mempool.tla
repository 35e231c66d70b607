------------------------------ MODULE Mempool ------------------------------
(***************************************************************************)
(* The pools of pending transactions (internal/mempool). Each Go pool is a *)
(* map by id and a slice of the ids in arrival order, always rebuilt       *)
(* together under the pool's mutex: here the sequence of the transactions. *)
(* The pool of payments also counts, per payer, the gross that its pending *)
(* payments will take: reserved, 0 when the map has no entry.              *)
(***************************************************************************)
EXTENDS LedgerRules

(* What the payments of a would take: the gross of each.                   *)
GrossOf(payments, a) ==
    SumOf([p \in ToSet(payments) |->
              IF p.payer = a THEN GrossAmount(p.items) ELSE 0], payments)

EmptyPool == [order |-> <<>>, reserved |-> [a \in AccountIDs |-> 0]]

NewIn(order, tx) == \A p \in ToSet(order) : p.id # tx.id

(* The end of TryAdd, once the id is new and the check passed. *)
AddPayment(pool, tx) ==
    [order    |-> Append(pool.order, tx),
     reserved |-> [pool.reserved EXCEPT ![tx.payer] = @ + GrossAmount(tx.items)]]

(* releaseLocked: an entry that falls to 0 or below is deleted. *)
Release(reserved, tx) ==
    LET left == reserved[tx.payer] - GrossAmount(tx.items)
    IN  [reserved EXCEPT ![tx.payer] = IF left > 0 THEN left ELSE 0]

(* Of a sequence, the elements that are in S, in their order.              *)
Only(seq, S) ==
    FoldLeft(LAMBDA kept, x : IF x \in S THEN Append(kept, x) ELSE kept, <<>>, seq)

(* Faulty: does not look at the transaction that came last. *)
WithoutUnlessLast(order, txs) ==
    Only(order, {p \in ToSet(order) : p = Last(order) \/ NewIn(txs, p)})

Without(order, txs) == Only(order, {p \in ToSet(order) : NewIn(txs, p)})

(* Those of the pool that Without takes out.                               *)
Among(order, txs) == Only(order, {p \in ToSet(order) : ~NewIn(txs, p)})

(* Faulty: forgets what was reserved for the payments it removes. *)
RemovePaymentsNoRelease(pool, txs) ==
    [order |-> Without(pool.order, txs), reserved |-> pool.reserved]

(* Faulty: releases what the removed payments reserved twice. *)
RemovePaymentsTwice(pool, txs) ==
    [order    |-> Without(pool.order, txs),
     reserved |-> FoldLeft(Release, pool.reserved,
                           Among(pool.order \o pool.order, txs))]

(* Faulty: releases also for payments that the pool does not have. *)
RemovePaymentsUnchecked(pool, txs) ==
    [order    |-> Without(pool.order, txs),
     reserved |-> FoldLeft(Release, pool.reserved, txs)]

(* removeLocked: ids that are not in the pool are skipped. *)
RemovePayments(pool, txs) ==
    [order    |-> Without(pool.order, txs),
     reserved |-> FoldLeft(Release, pool.reserved,
                           Among(pool.order, txs))]

(* Faulty: counts nothing as reserved. *)
AvailableIgnoringPending(s, pool, a) == s

(* What ValidateAdmit validates a payment by a against: the confirmed      *)
(* state, less what a's pending payments will take.                        *)
Available(s, pool, a) ==
    IF Exists(s, a)
    THEN [s EXCEPT !.balance[a] = @ - pool.reserved[a]] ELSE s

(***************************************************************************)
(* selectExecutable walks a pool in arrival order, applies to a scratch    *)
(* state what is valid there and drops what is not, until max are taken.   *)
(***************************************************************************)
Select(Valid(_, _), Apply(_, _), order, max, s) ==
    FoldLeft(LAMBDA sel, tx :
                 IF Len(sel.taken) >= max THEN sel
                 ELSE IF Valid(tx, sel.state)
                      THEN [sel EXCEPT !.state = Apply(tx, @),
                                       !.taken = Append(@, tx)]
                      ELSE [sel EXCEPT !.dropped = Append(@, tx)],
             [state |-> s, taken |-> <<>>, dropped |-> <<>>], order)

SelectCreate(order, max, s) == Select(ValidCreate, ApplyCreate, order, max, s)

(* Faulty: takes every pending payment, valid or not. *)
SelectPaymentUnchecked(order, max, s) ==
    Select(LAMBDA tx, t : TRUE, ApplyPayment, order, max, s)

SelectPayment(order, max, s) == Select(ValidPayment, ApplyPayment, order, max, s)

SelectClose(order, max, s) == Select(ValidClose, ApplyClose, order, max, s)
=============================================================================
