---------------------------- MODULE AddressSpace ----------------------------
(***************************************************************************)
(* What a caller of pagefile.c relies on, with no directory, no tables and *)
(* no index arithmetic: an address space maps every page to a word, the    *)
(* address of a frame with flags.  A new one maps every page to the frame  *)
(* of the same number; setting a page changes that page of that space and  *)
(* nothing else.                                                           *)
(***************************************************************************)
EXTENDS Integers

CONSTANTS
    Names,      \* the names of address spaces
    Pages,      \* the pages of an address space, from 0 on
    PageSize,
    Flags,      \* the flags an address space can be created with
    Values      \* the words a page can be set to

VARIABLES
    spaces,     \* the address spaces: the name of each |-> its pages |-> words
    active      \* the space that was switched to last, or -1

spaceVars == <<spaces, active>>

SpaceInit ==
    /\ spaces = [s \in {} |-> <<>>]
    /\ active = -1

New(s, flags) ==
    /\ s \notin DOMAIN spaces
    /\ spaces' = [r \in DOMAIN spaces \cup {s} |->
                    IF r = s THEN [p \in Pages |-> p * PageSize + flags] ELSE spaces[r]]
    /\ UNCHANGED active

SetPage(s, p, value) ==
    /\ s \in DOMAIN spaces
    /\ spaces' = [spaces EXCEPT ![s][p] = value]
    /\ UNCHANGED active

Switch(s) ==
    /\ s \in DOMAIN spaces
    /\ active' = s
    /\ UNCHANGED spaces

SpaceNext ==
    \/ \E s \in Names, flags \in Flags : New(s, flags)
    \/ \E s \in Names, p \in Pages, value \in Values : SetPage(s, p, value)
    \/ \E s \in Names : Switch(s)

SpaceSpec == SpaceInit /\ [][SpaceNext]_spaceVars
=============================================================================
