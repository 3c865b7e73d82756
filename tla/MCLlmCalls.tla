----------------------------- MODULE MCLlmCalls -----------------------------
EXTENDS LlmCalls, TLC

\* All keys in the settings; some; and a user with a Groq key of their own.
MCEnvironments == {{"nvidia"}, {"openrouter"}, {"groq", "openrouter"}}
MCOwnKeys == {{}, {"groq"}}

Symmetry == Permutations(Threads)
=============================================================================
