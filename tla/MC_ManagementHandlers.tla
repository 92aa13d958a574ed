------------------------ MODULE MC_ManagementHandlers ------------------------
EXTENDS ManagementHandlers

\* The application hooks accept (202) or fail (500).
MC_ActionRcs == {202, 500}
=============================================================================
