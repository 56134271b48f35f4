------------------------------- MODULE MCData -------------------------------
(***************************************************************************)
(* Small instances of the data of both families of controllers for TLC: a  *)
(* behaviour is one read or write of either.                               *)
(***************************************************************************)
EXTENDS PcccData, LgxData

A == <<65>>
Ab == <<65, 98>>
Letters(n) == [i \in 1 .. n |-> 65]
TextTags ==
  {<<Member(Ab, <<>>), Member(A, <<>>)>>} \cup
  {<<Member(Ab, <<i>>)>> : i \in {-1, 0, 255, 256, 65536, 65541}} \cup
  {<<Member(A, <<i, 65535>>), Member(Ab, <<5>>)>> : i \in {2, 65536}} \cup
  {<<Member(Letters(256), <<>>)>>} \cup
  {[i \in 1 .. n |-> Member(Letters(40), <<>>)] : n \in {12, 13}}

-----------------------------------------------------------------------------
\* The PLC holds the elements of one address.
Held == {<<7, 0>>}

Element0 == {Part(":", n) : n \in {0, 254, 255, 256, 65535, 65536}}
Inner == {Part(word, None) : word \in {"PRE", "ACC", "EN", "DN", "TT", "CU", "CD",
                                      "LEN", "POS", "CTL", "SP"}}

\* N7:0 and its bits; large files and elements; mnemonics, with the levels
\* before them in one byte or in three; a sub-element in three bytes and a bit;
\* the addresses without the number of their file. All have the form of an address.
TextAddresses ==
  {<<Part("N", 7), Part(":", 0), Part("/", bit)>> : bit \in {9, 15, 16, 40, 65545}} \cup
  {<<Part("N", 8), Part(":", 0), Part("/", bit)>> : bit \in {0, 16, 31}} \cup
  {<<Part("N", f), e>> : f \in {7, 300}, e \in Element0} \cup
  {<<Part("T", f), Part(":", e), p>> : f \in {4, 300}, e \in {0, 1000}, p \in Inner} \cup
  {<<Part("PD", 9), Part(":", 0), Part("CTL", n)>> : n \in {0, 1}} \cup
  {<<Part("ST", 300), Part(":", 400), Part(".", 500), Part("/", 3)>>} \cup
  {<<Part(word, None), Part(":", 1), Part("/", 3)>> : word \in {"S", "I", "O"}}

ASSUME TextAddressesAreAddresses == \A address \in TextAddresses : IsDataAddress(address)

\* Integers at the edges of a word, and of a float.
Messages == {0, 5, -1, 32767, 32768, -32768, -32769, 65536, 70000}
Numbers ==
  {0, -1, -128, 127, 255, -32768, 2^24, -(2^24) - 3, 2^30 + 65, 2147483583, 2147483584}

\* A step of either library module; they share the first state.
AnyNext == Next \/ LgxNext

AnySpec == Init /\ [][AnyNext]_vars
=============================================================================
