----------------------------- MODULE MCTestRun -----------------------------
EXTENDS TestRun

\* A bundle's suite holds the suite of its only class.
SuiteNames == <<"Bundle", "Class">>
ClassNames == {"Class"}

\* Either a target is reported at length, with a test case in a nested suite, or
\* what is left of one meets the next.
Reports == {<<7, 0>>, <<1, 4>>}
=============================================================================
