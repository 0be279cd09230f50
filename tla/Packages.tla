------------------------------ MODULE Packages ------------------------------
(***************************************************************************)
(* The packages that share nothing, side by side: one of them runs (part), *)
(* the variables of the others rest.                                       *)
(***************************************************************************)
EXTENDS Integers, Sequences

CONSTANTS ExpBits, DivisionPrecision, MantBits, MaxValue, Exps, Places, Operands, Floats,
          Goroutines, Nobody, ByteBits, LowBits, HighBits, Starts, MaxTime, MaxBumps,
          Ids, Chans, Registrants, Triggers, NoChan,
          Requests, Contexts, Nothing, Tokens, NoToken, Entries,
          Resting    \* the value of a variable whose package does not run

VARIABLES part,
          total,
          clock, clockSequence, lastTime, mutex, maker, bumps, issued, repeats,
          table, buffer, closed, waiter, sent, owner,
          pool, wraps, req

uuidVars == <<clock, clockSequence, lastTime, mutex, maker, bumps, issued, repeats>>
waitVars == <<table, buffer, closed, waiter, sent, owner>>
httpVars == <<pool, wraps, req>>
vars == <<part, total, uuidVars, waitVars, httpVars>>

Numbers == INSTANCE Decimal
Uuids == INSTANCE Uuid WITH pc <- maker
Waits == INSTANCE Wait WITH pc <- waiter
Http == INSTANCE HttpContext

\* The exponents that QuoRem and DivRound compute fit in the bits that they have.
DivisionFits(e, e2, p) ==
  \A n \in {e, e2, -p, e - e2 + p, e2 - p, e + p} : Numbers!FitsInt32(n)

\* Totals and operands are decimals, exponents have a sign bit, and those of what is
\* rounded and divided fit.  A quotient has the two places of money at least, and the
\* mantissa of a float one bit more than the amounts.
DecimalParameters ==
  /\ MaxValue \in Nat /\ Exps \subseteq Int /\ 0 \in Exps /\ Places \subseteq Int
  /\ \A x \in Operands : x \in Numbers!Decimals
  /\ 2 ^ (ExpBits - 1) \in Nat \ {0} /\ 2 ^ ExpBits = 2 * 2 ^ (ExpBits - 1)
  /\ \A p \in Places : Numbers!FitsInt32(-p) /\ Numbers!FitsInt32(-p - 1)
  /\ \A e \in Exps, x \in Operands, p \in Places : DivisionFits(e, x.exp, p)
  /\ \A e \in Exps : Numbers!FitsInt32(e)
  /\ DivisionPrecision \in Nat /\ DivisionPrecision >= 2 /\ Numbers!FitsInt32(DivisionPrecision)
  /\ MantBits \in Nat \ {0} /\ MaxValue < 2 ^ (MantBits - 1)
  /\ Floats \subseteq [neg : BOOLEAN, mant : Nat, exp2 : Int]

\* The mutex is free when nobody holds it; the clock sequence is drawn with all the bits
\* that it has; the times of the clock, 100 ns each, fit in the bits that they have.
UuidParameters ==
  /\ Nobody \notin Goroutines
  /\ Starts \subseteq 0 .. 2 ^ (2 * ByteBits) - 1
  /\ MaxTime \in Nat /\ MaxTime < 2 ^ LowBits * 2 ^ HighBits
  /\ MaxBumps \in Nat

\* The goroutines that register are not those that trigger, and no channel is nil.
WaitParameters == NoChan \notin Chans /\ Registrants \cap Triggers = {}

\* An entry of the cache is split into strings.
HttpParameters == \A token \in DOMAIN Entries : Entries[token] \in Seq(STRING)

ASSUME PackagesAssumption ==
  DecimalParameters /\ UuidParameters /\ WaitParameters /\ HttpParameters

UuidRests == /\ clock = Resting /\ clockSequence = Resting /\ lastTime = Resting /\ mutex = Resting
             /\ maker = Resting /\ bumps = Resting /\ issued = Resting /\ repeats = Resting
WaitRests == /\ table = Resting /\ buffer = Resting /\ closed = Resting
             /\ waiter = Resting /\ sent = Resting /\ owner = Resting
HttpRests == pool = Resting /\ wraps = Resting /\ req = Resting

Init ==
  \/ part = "decimal" /\ Numbers!Init /\ UuidRests /\ WaitRests /\ HttpRests
  \/ part = "uuid" /\ total = Resting /\ Uuids!Init /\ WaitRests /\ HttpRests
  \/ part = "wait" /\ total = Resting /\ UuidRests /\ Waits!Init /\ HttpRests
  \/ part = "http" /\ total = Resting /\ UuidRests /\ WaitRests /\ Http!Init

Next ==
  \/ part = "decimal" /\ Numbers!Next /\ UNCHANGED <<part, uuidVars, waitVars, httpVars>>
  \/ part = "uuid" /\ Uuids!Next /\ UNCHANGED <<part, total, waitVars, httpVars>>
  \/ part = "wait" /\ Waits!Next /\ UNCHANGED <<part, total, uuidVars, httpVars>>
  \/ part = "http" /\ Http!Next /\ UNCHANGED <<part, total, uuidVars, waitVars>>

Spec == Init /\ [][Next]_vars

\* The types of the part that runs.
TypeOK == CASE part = "decimal" -> Numbers!TypeOK [] part = "uuid" -> Uuids!TypeOK
            [] part = "wait" -> Waits!TypeOK [] part = "http" -> Http!TypeOK

\* Rounding and dividing decimals give the nearest number on the grid asked for.
RoundedIsNearest == part = "decimal" => Numbers!RoundedIsNearest

\* Amounts of cash are rounded to the nearest unit, and powers are products.
CashAndPowers == part = "decimal" => Numbers!CashAndPowers

\* A decimal or an amount comes back from its text, binary, column or float.
WrittenIsRead == part = "decimal" => Numbers!WrittenIsRead

\* No identifier is made twice before the clock sequence has gone round.
NoEarlyRepeat == part = "uuid" => Uuids!NoEarlyRepeat

\* Every registration can be answered until it is, once, by a trigger of its own.
AnsweredOnce == part = "wait" => Waits!AnsweredOnce

\* Wait implements one-shot answers, whatever registers and triggers overlap: in every
\* step one registration is opened, is answered by one trigger, receives that answer, or
\* nothing is to be seen.
ImplementsOneShot ==
  /\ part = "wait" => Waits!Answers!Init
  /\ [][part = "wait" => Waits!Answers!Next \/ UNCHANGED [c \in Chans |-> Waits!Registration(c)]]_vars

\* Requests never share a context, and are answered as if each were alone.
RequestsApart == part = "http" => Http!RequestsApart
=============================================================================
