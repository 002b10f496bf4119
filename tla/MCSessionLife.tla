--------------------------- MODULE MCSessionLife ---------------------------
(***************************************************************************)
(* Instances of SessionLife for TLC.                                       *)
(***************************************************************************)
EXTENDS SessionLife, TLC

CONSTANT w1

\* What one read delivers: the requests that matter on their own, and those that
\* follow one which ended the session.
SmallLines ==
  {<< <<"subscribe", FALSE>>, <<"authorize", w1>> >>,
   << <<"subscribe", TRUE>>, <<"authorize", w1>>, <<"subscribe", TRUE>> >>,
   << <<"share">>, <<"bad">> >>,
   << <<"bad">>, <<"bad">>, <<"authorize", Junk>> >>}

SmallFrames ==
  {<< <<"setup">>, <<"open", w1, FALSE>> >>,
   << <<"open", w1, TRUE>>, <<"share">> >>,
   << <<"open", Junk, TRUE>> >>}

SmallTiers == << {"noise"}, {"v1"} >>
=============================================================================
