------------------------------ MODULE MCSdkApp ------------------------------
\* The service and one installer, three generated pairs, one fault anywhere.
EXTENDS SdkApp
=============================================================================
