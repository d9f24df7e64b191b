----------------------------- MODULE MCJitCache -----------------------------
EXTENDS JitCache
=============================================================================
