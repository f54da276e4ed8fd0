-------------------------- MODULE MCGeneratorBatch --------------------------
EXTENDS GeneratorBatch, MCFindingLedger

CONSTANTS f1, f2, c1, c2

Found(finding, grade, content) == [finding |-> finding, grade |-> grade, says |-> content]

\* Two generators, one of which finds something else later, or of another kind.
TwoProjections ==
  {<<Found(f1, "lead", c1), Found(f2, "candidate", c1)>>, <<Found(f1, "lead", c2)>>}

\* A generator that finds something of two things.
OneProjection == {<<Found(f1, "lead", c1), Found(f2, "lead", c1)>>}
=============================================================================
