--------------------------- MODULE MCPollSession ---------------------------
(* Small instances of PollSession.                                           *)
EXTENDS PollSession

Nothing == <<>>

(* Device 1 has two ranges of holding registers, device 2 a range of coils.  *)
MixedPlan == <<  <<Nothing, Nothing, <<1, 2>>, Nothing>>,
                 << <<1>>, Nothing, Nothing, Nothing>>  >>

(* A holding register each.                                                  *)
OneEach == << <<Nothing, Nothing, <<1>>, Nothing>>,
              <<Nothing, Nothing, <<1>>, Nothing>> >>
=============================================================================
