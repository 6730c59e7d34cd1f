-------------------------------- MODULE Market --------------------------------
(***************************************************************************)
(* What the deployment scripts promise of a market, whatever the order of  *)
(* their transactions and the failures on the way: a pool whose revision   *)
(* only grows, reserves that can be borrowed only once they are listed,    *)
(* the pool's oracle has its price sources and every rate that is quoted   *)
(* for them is in, and an opening at which every listed reserve is         *)
(* configured and the market is under its own admin.  A reserve without a  *)
(* quoted rate is borrowable without one.                                  *)
(* Before it opens a market may be abandoned for a new one; after it, not. *)
(***************************************************************************)
EXTENDS Naturals

CONSTANTS Assets,
          Quoted     \* those a market rate is configured for

VARIABLES revision,    \* of the pool's implementation, 0 before there is a pool
          listed,      \* the reserves of the pool
          borrowable,  \* those with borrowing enabled
          priced,      \* whether the pool finds a price oracle with sources and a rate oracle
          rated,       \* the quoted reserves whose rate that rate oracle has
          governed,    \* whether the deployer is the pool admin
          open         \* whether the launch is over

vars == <<revision, listed, borrowable, priced, rated, governed, open>>

Init == /\ revision = 0 /\ listed = {} /\ borrowable = {}
        /\ priced = FALSE /\ rated = {} /\ governed = FALSE /\ open = FALSE

Install == /\ revision' \in Nat /\ revision' > revision
           /\ UNCHANGED <<listed, borrowable, priced, rated, governed, open>>

List == /\ revision > 0 /\ governed
        /\ listed \subseteq listed' /\ listed' \subseteq Assets
        /\ UNCHANGED <<revision, borrowable, priced, rated, governed, open>>

\* Prices and rates come in, in any order, and stay.
Price == /\ priced' \in BOOLEAN /\ (priced => priced')
         /\ rated \subseteq rated' /\ rated' \subseteq Quoted
         /\ UNCHANGED <<revision, listed, borrowable, governed, open>>

\* The pool admin changes hands: to configure reserves it is lent to a helper.
Appoint == /\ governed' \in BOOLEAN
           /\ UNCHANGED <<revision, listed, borrowable, priced, rated, open>>

Enable == /\ priced /\ ~governed
          /\ borrowable \subseteq borrowable' /\ borrowable' \subseteq listed
          /\ borrowable' \cap Quoted \subseteq rated
          /\ UNCHANGED <<revision, listed, priced, rated, governed, open>>

Open == /\ governed /\ listed # {} /\ borrowable = listed
        /\ open' = TRUE
        /\ UNCHANGED <<revision, listed, borrowable, priced, rated, governed>>

Abandon == /\ ~open
           /\ revision' = 0 /\ listed' = {} /\ borrowable' = {}
           /\ priced' = FALSE /\ rated' = {} /\ governed' = FALSE /\ open' = FALSE

Next == Install \/ List \/ Price \/ Appoint \/ Enable \/ Open \/ Abandon

Spec == Init /\ [][Next]_vars
=============================================================================
