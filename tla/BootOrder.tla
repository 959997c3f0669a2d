----------------------------- MODULE BootOrder -----------------------------
(***************************************************************************)
(* LibInsertToTailOfBootOrder and LibDeleteVariable of gnu-efi/lib/misc.c: *)
(* both read a variable with LibGetVariableAndSize, which is the atomic    *)
(* read of AtomicRead, and then set it; other code may set it at any time, *)
(* and every call may fail.  A variable is its bytes, an option is two     *)
(* bytes, and no bytes at all are no variable.                             *)
(***************************************************************************)
EXTENDS Integers, Sequences, SequencesExt

CONSTANTS
    Orders,          \* what BootOrder may be, also of odd length
    BootOption,      \* the two bytes to insert
    MaxOrderEvents   \* bound: changes by other code

ASSUME BootOrderAssumption ==
    /\ Orders \subseteq Seq(Nat) /\ <<>> \in Orders
    /\ BootOption \in Seq(Nat) /\ Len(BootOption) = 2
    /\ MaxOrderEvents \in Nat

VARIABLES
    orderPc,            \* "read", "allocate", "set", "return"
    orderFn,            \* "insert" or "delete"
    OnlyInsertIfEmpty,
    order,              \* the variable
    BootOptionArray,    \* what was read, <<>> for NULL; its size is VarSize
    NewBootOptionArray,
    orderLive,          \* pool: "old", "new"
    orderStatus,
    replaced,           \* what the call has overwritten
    misread,            \* the read has failed, or its result is no longer current
    orderEvents

orderVars == <<orderPc, orderFn, OnlyInsertIfEmpty, order, BootOptionArray,
               NewBootOptionArray, orderLive, orderStatus, replaced, misread, orderEvents>>

OrderOff ==
    /\ orderPc = "off" /\ orderFn = "insert" /\ OnlyInsertIfEmpty = FALSE /\ order = <<>>
    /\ BootOptionArray = <<>> /\ NewBootOptionArray = <<>> /\ orderLive = {}
    /\ orderStatus = "none" /\ replaced = <<>> /\ misread = FALSE /\ orderEvents = 0

OrderInit ==
    /\ orderPc = "read" /\ orderFn \in {"insert", "delete"} /\ OnlyInsertIfEmpty \in BOOLEAN
    /\ order \in Orders
    /\ BootOptionArray = <<>> /\ NewBootOptionArray = <<>> /\ orderLive = {}
    /\ orderStatus = "none" /\ replaced = <<>> /\ misread = FALSE /\ orderEvents = 0

\* LibGetVariableAndSize gives NULL and size 0 for any failure.
ReadOrder ==
    /\ orderPc = "read"
    /\ \/ order # <<>> /\ BootOptionArray' = order /\ orderLive' = {"old"} /\ misread' = FALSE
       \/ BootOptionArray' = <<>> /\ UNCHANGED orderLive /\ misread' = (order # <<>>)
    /\ orderPc' = "allocate"
    /\ UNCHANGED <<orderFn, OnlyInsertIfEmpty, order, NewBootOptionArray, orderStatus,
                   replaced, orderEvents>>

\* if (VarSize != 0 && OnlyInsertIfEmpty), and if (VarBuf) of LibDeleteVariable.
Declines ==
    IF orderFn = "insert" THEN OnlyInsertIfEmpty /\ BootOptionArray # <<>>
    ELSE BootOptionArray = <<>>

Decline ==
    /\ orderPc = "allocate" /\ Declines
    /\ orderPc' = "return" /\ orderLive' = {}
    /\ orderStatus' = (IF orderFn = "insert" THEN "UNSUPPORTED" ELSE "NOT_FOUND")
    /\ UNCHANGED <<orderFn, OnlyInsertIfEmpty, order, BootOptionArray, NewBootOptionArray,
                   replaced, misread, orderEvents>>

\* Index < VarSize/sizeof(UINT16) - 1, with VarSize the size of the new array.
KeptButOne == 2 * ((Len(BootOptionArray) + 2) \div 2 - 2)
Kept == 2 * ((Len(BootOptionArray) + 2) \div 2 - 1)

\* The last byte of an array of odd length is never written.
Extended ==
    SubSeq(BootOptionArray, 1, Kept) \o BootOption
        \o [b \in 1 .. Len(BootOptionArray) % 2 |-> -1]

BuildOrder ==
    /\ orderPc = "allocate" /\ ~Declines
    /\ \/ /\ orderPc' = "set" /\ UNCHANGED orderStatus
          /\ NewBootOptionArray' = (IF orderFn = "insert" THEN Extended ELSE <<>>)
          /\ orderLive' = orderLive \cup (IF orderFn = "insert" THEN {"new"} ELSE {})
       \/ /\ orderFn = "insert" /\ orderPc' = "return" /\ orderStatus' = "OUT_OF_RESOURCES"
          /\ UNCHANGED <<NewBootOptionArray, orderLive>>
    /\ UNCHANGED <<orderFn, OnlyInsertIfEmpty, order, BootOptionArray, replaced, misread,
                   orderEvents>>

SetVariable ==
    /\ orderPc = "set" /\ orderPc' = "return" /\ orderLive' = {}
    /\ \/ orderStatus' = "SUCCESS" /\ order' = NewBootOptionArray /\ replaced' = order
       \/ orderStatus' = "ERROR" /\ UNCHANGED <<order, replaced>>
    /\ UNCHANGED <<orderFn, OnlyInsertIfEmpty, BootOptionArray, NewBootOptionArray, misread,
                   orderEvents>>

OthersSetOrder ==
    /\ orderPc \in {"read", "allocate", "set"} /\ orderEvents < MaxOrderEvents
    /\ order' \in Orders /\ orderEvents' = orderEvents + 1
    /\ misread' = (orderPc # "read" /\ order' # BootOptionArray)
    /\ UNCHANGED <<orderPc, orderFn, OnlyInsertIfEmpty, BootOptionArray, NewBootOptionArray,
                   orderLive, orderStatus, replaced>>

OrderNext == ReadOrder \/ Decline \/ BuildOrder \/ SetVariable \/ OthersSetOrder

OrderSpec == OrderInit /\ [][OrderNext]_orderVars

-----------------------------------------------------------------------------
\* misc.c 368-413: an insertion that succeeds keeps every option it finds, in its place
\* before the new one, fills an order only where it may, and stores no byte nobody has
\* written.  The code looks at neither the reason of a failed read, which it takes for
\* an empty order, nor at changes after the read, nor at odd sizes: these are the only
\* exceptions.
OptionsKept ==
    orderStatus = "SUCCESS" /\ orderFn = "insert" =>
        \/ misread
        \/ /\ IsPrefix(SubSeq(replaced, 1, 2 * (Len(replaced) \div 2)), NewBootOptionArray)
           /\ OnlyInsertIfEmpty => replaced = <<>>
           /\ -1 \in ToSet(NewBootOptionArray) <=> Len(replaced) % 2 = 1

\* What was read is freed at every return but the one for want of memory, misc.c 390.
ArraysFreed ==
    orderPc = "return" =>
        orderLive = IF orderStatus = "OUT_OF_RESOURCES" /\ BootOptionArray # <<>> THEN {"old"} ELSE {}

\* misc.c 295-413: the two read and write the variable without losing options or memory,
\* but for the exceptions above; and a variable is deleted only after it was seen.
OrderSafe ==
    /\ OptionsKept /\ ArraysFreed
    /\ orderFn = "delete" /\ orderStatus = "SUCCESS" => BootOptionArray # <<>>
=============================================================================
