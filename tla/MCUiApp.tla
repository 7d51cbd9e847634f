------------------------------ MODULE MCUiApp ------------------------------
\* UiApp on a small instance; its constants are numbers, given in the .cfg.
EXTENDS UiApp
=============================================================================
