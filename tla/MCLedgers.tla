------------------------------ MODULE MCLedgers ------------------------------
(***************************************************************************)
(* Up to four calls.  Two of the ballots differ and have the same bytes    *)
(* when joined; ids look like the marks and sizes of the export, and a     *)
(* poll, a voter and the link of the first audit entry end in zeros.       *)
(***************************************************************************)
EXTENDS Ledgers

MCBytes == 0..2
MCPolls == {<<0>>}
MCAuthority == <<2>>
MCVoterHashes == {<<0>>, <<1>>}
MCMetadata == {None, <<1, 0>>}
MCCreators == {<<1>>}
MCConfigurations == {<<0, 1>>}
MCTallyHashes == {<<0>>}
MCBallots == {<<<<1>>, <<1, 2>>>>, <<<<1, 1>>, <<2>>>>, <<<<2>>, <<1>>>>}
MCTallyLists == {<<<<1>>, <<0>>>>}
MCChoiceLists == {<<<<1>>, <<2>>>>}
=============================================================================
