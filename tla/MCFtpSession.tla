---------------------------- MODULE MCFtpSession ----------------------------
EXTENDS FtpSession, TLC

MCInside == {<<"game", "games">>, <<".", "..">>}
MCStartOf == MCInside
MCEndOf == {<<".", "..">>}
MCFolders == {<<"sd">>, <<"sd", "games">>, <<"sd", "games", "games">>}
Slots == Permutations(Session)
MCArg ==
  {<<>>, <<"game">>, <<"games">>, <<"x">>, <<"..">>,
   <<"/", "sd", "/", "games">>, <<"/", "sd", "/", "games", "/", "games">>,
   <<"games", "/", "game">>}
=============================================================================
