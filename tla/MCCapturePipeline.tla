-------------------------- MODULE MCCapturePipeline --------------------------
\* Up to two pages, named or not, and up to two steps of enhancement.
EXTENDS CapturePipeline
=============================================================================
