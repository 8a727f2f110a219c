----------------------------- MODULE MCMempool -----------------------------
EXTENDS Mempool

Tx(hash, from, nonce, fee, size) ==
    [hash |-> hash, from |-> from, nonce |-> nonce, fee |-> fee, size |-> size]

\* Two senders: one replaces its first transaction, its second pays more than
\* the first; the other is cheap at first and large later.
TwoSenders ==
    {Tx(3, "s", 0, 9, 2), Tx(1, "s", 0, 10, 3), Tx(4, "s", 1, 12, 1),
     Tx(2, "t", 0, 8, 1), Tx(5, "t", 1, 11, 5)}

Small == [max_size |-> 3, max_per_sender |-> 2, min_fee |-> 1,
          rbf_bump_percent |-> 10, max_pool_bytes |-> 6]

Smaller == [max_size |-> 3, max_per_sender |-> 1, min_fee |-> 1,
            rbf_bump_percent |-> 5, max_pool_bytes |-> 5]
=============================================================================
