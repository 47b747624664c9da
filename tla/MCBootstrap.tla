----------------------------- MODULE MCBootstrap -----------------------------
EXTENDS Bootstrap, TLC

Execution(level, requirement, mfa) ==
    [level |-> level, requirement |-> requirement, mfa |-> mfa]

\* realm-kiban.json: the authentication subflow and the MFA setup both REQUIRED,
\* the alternatives one level down.
MCImported ==
    {Execution(0, "REQUIRED", FALSE), Execution(0, "REQUIRED", TRUE),
     Execution(1, "ALTERNATIVE", FALSE)}

\* As imported, with the alternatives beside the MFA setup, and without it.
MCFlow ==
    {MCImported,
     {Execution(0, "REQUIRED", TRUE), Execution(0, "ALTERNATIVE", FALSE)},
     {Execution(0, "REQUIRED", FALSE)}}

Symmetry == Permutations(Process)
==============================================================================
