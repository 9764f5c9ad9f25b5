------------------------------ MODULE Decimals ------------------------------
(***************************************************************************)
(* Money in this system lives in two representations.                      *)
(*                                                                         *)
(*  - In memory it is an exact decimal (shopspring/decimal): products of a *)
(*    price and a quantity keep every digit.                               *)
(*  - In MySQL it is DECIMAL(30,8) (scripts/init.sql): a value written to  *)
(*    a column is rounded half away from zero to 8 decimals.               *)
(*                                                                         *)
(* Prices and quantities are integers counted in column units (10^-8).     *)
(* Amounts are integers counted in price-times-quantity units, Scale of    *)
(* which make one column unit (Scale = 10^8 in the code, small in models). *)
(***************************************************************************)
EXTENDS Integers

CONSTANT Scale      \* amount units per column unit: 10^8 in the code

ASSUME ScaleAssumption == Scale \in Nat \ {0}

\* A DECIMAL column stores a whole number of column units: the value that is
\* read back after writing the non-negative amount x.
Column(x) == (x - (x % Scale)) + (IF 2 * (x % Scale) >= Scale THEN Scale ELSE 0)

\* A whole number of column units, which a column stores exactly.
Representable(x) == x % Scale = 0
=============================================================================
