\* Two CLIs that come and go, and a browser.
CONSTANTS
  Clis = {c1, c2}
  Browsers = {b1}
  MaxWrites = 2
  MaxTimers = 1
SPECIFICATION FairSpec
INVARIANTS ListensWhileWatched BrowsersKnow ServedIsRunning TimersFollow
PROPERTIES Escalates
